---------------------------- MODULE Spec2Model ----------------------------
(***************************************************************************)
(* Archive password cracker (C++ backend): the cracking engine of          *)
(* brute_force.cpp (workers, index enumerators, run controller), the       *)
(* Bloom filter of bloom_filter.cpp/.h and the result mapping of main.cpp. *)
(*                                                                         *)
(* Characters are one-character strings, passwords and patterns are        *)
(* sequences of characters.  64-bit unsigned values are kept exactly, as   *)
(* four 16-bit limbs, least significant first.                             *)
(***************************************************************************)
EXTENDS Integers, Sequences, FiniteSets, Bags, TLC

(***************************************************************************)
(* Bounds of the model.                                                    *)
(***************************************************************************)
MaxLen == 2
MaxThreads == 2
OverflowLen == 16
MaxShuffle == 4
MaxElapsed == 1

(***************************************************************************)
(* uint64 arithmetic (typedef unsigned long long uint64).                  *)
(***************************************************************************)
Limb == 2^16

\* the element of a one-element set.  The operators below bind their
\* arguments as TheOnly({f(a) : a \in {x}}), so that an argument is computed
\* once and not once per use
TheOnly(S) == CHOOSE x \in S : TRUE

U64(n) == <<n % Limb, (n \div Limb) % Limb, 0, 0>>

U64Max == <<Limb - 1, Limb - 1, Limb - 1, Limb - 1>>

\* the value of x as an integer; only used where the value is below 2^30
U64ToInt(x) == TheOnly({a[1] + Limb * a[2] : a \in {x}})

U64Fits(x) == TheOnly({a[3] = 0 /\ a[4] = 0 /\ a[2] < 2^14 : a \in {x}})

\* x * c mod 2^64, for c < 2^15
U64MulSmall(x, c) ==
    TheOnly({LET p1 == a[1] * c
                 p2 == a[2] * c + (p1 \div Limb)
                 p3 == a[3] * c + (p2 \div Limb)
                 p4 == a[4] * c + (p3 \div Limb)
             IN  <<p1 % Limb, p2 % Limb, p3 % Limb, p4 % Limb>> :
               a \in {x}})

\* x + y mod 2^64
U64Add(x, y) ==
    TheOnly({LET s1 == a[1] + b[1]
                 s2 == a[2] + b[2] + (s1 \div Limb)
                 s3 == a[3] + b[3] + (s2 \div Limb)
                 s4 == a[4] + b[4] + (s3 \div Limb)
             IN  <<s1 % Limb, s2 % Limb, s3 % Limb, s4 % Limb>> :
               a \in {x}, b \in {y}})

\* x - y mod 2^64
U64Sub(x, y) ==
    TheOnly({LET d1 == a[1] - b[1]
                 d2 == a[2] - b[2] - (IF d1 < 0 THEN 1 ELSE 0)
                 d3 == a[3] - b[3] - (IF d2 < 0 THEN 1 ELSE 0)
                 d4 == a[4] - b[4] - (IF d3 < 0 THEN 1 ELSE 0)
             IN  <<d1 % Limb, d2 % Limb, d3 % Limb, d4 % Limb>> :
               a \in {x}, b \in {y}})

\* x << (16 * n) mod 2^64
U64ShiftLimbs(x, n) ==
    TheOnly({<<IF 1 - n >= 1 THEN a[1 - n] ELSE 0, IF 2 - n >= 1 THEN a[2 - n] ELSE 0,
               IF 3 - n >= 1 THEN a[3 - n] ELSE 0, IF 4 - n >= 1 THEN a[4 - n] ELSE 0>> :
               a \in {x}})

\* x * y mod 2^64, for y whose limbs are all below 2^15
U64Mul(x, y) ==
    TheOnly({U64Add(U64Add(U64MulSmall(a, y[1]), U64ShiftLimbs(U64MulSmall(a, y[2]), 1)),
                    U64Add(U64ShiftLimbs(U64MulSmall(a, y[3]), 2),
                           U64ShiftLimbs(U64MulSmall(a, y[4]), 3))) :
               a \in {x}})

\* x / c (integer division), for 0 < c < 2^15
U64DivSmall(x, c) ==
    TheOnly({LET n4 == a[4]
                 n3 == (n4 % c) * Limb + a[3]
                 n2 == (n3 % c) * Limb + a[2]
                 n1 == (n2 % c) * Limb + a[1]
             IN  <<n1 \div c, n2 \div c, n3 \div c, n4 \div c>> :
               a \in {x}})

\* x % m, for 0 < m < 2^15
U64Mod(x, m) ==
    TheOnly({((((((a[4] % m) * Limb + a[3]) % m) * Limb + a[2]) % m) * Limb + a[1]) % m :
               a \in {x}})

\* x > y
U64Gt(x, y) ==
    TheOnly({\E i \in 1..4 : a[i] > b[i] /\ \A j \in (i + 1)..4 : a[j] = b[j] :
               a \in {x}, b \in {y}})

RECURSIVE BitXor(_, _)
BitXor(a, b) ==
    IF a = 0 THEN b
    ELSE IF b = 0 THEN a
    ELSE ((a + b) % 2) + 2 * TheOnly({BitXor(p, q) : p \in {a \div 2}, q \in {b \div 2}})

\* the eight bytes of x as they lie in memory (little-endian)
U64Bytes(x) ==
    TheOnly({<<a[1] % 256, a[1] \div 256, a[2] % 256, a[2] \div 256,
               a[3] % 256, a[3] \div 256, a[4] % 256, a[4] \div 256>> :
               a \in {x}})

(***************************************************************************)
(* Characters and their byte values.                                       *)
(***************************************************************************)
Letters == <<"a", "b", "c", "d", "e", "f", "g", "h",
            "i", "j", "k", "l", "m", "n", "o", "p">>

Ord == [c \in {Letters[i] : i \in 1..Len(Letters)} \cup {"?", "*", "\\"} |->
          CASE c = "?" -> 63 [] c = "*" -> 42 [] c = "\\" -> 92
            [] OTHER -> 96 + (CHOOSE i \in 1..Len(Letters) : Letters[i] = c)]

StrBytes(s) == [i \in 1..Len(s) |-> Ord[s[i]]]

(***************************************************************************)
(* bloom_filter.h: fnv1a_hash                                              *)
(***************************************************************************)
FnvOffsetBasis == <<8997, 33826, 40164, 52210>>   \* 0xcbf29ce484222325
FnvPrime == <<435, 0, 256, 0>>                    \* 0x100000001b3

RECURSIVE FnvFold(_, _, _)
FnvFold(bytes, i, hash) ==
    IF i > Len(bytes) THEN hash
    ELSE TheOnly({FnvFold(bytes, i + 1, next) :
                    next \in {U64Mul(<<(hash[1] \div 256) * 256
                                         + BitXor(hash[1] % 256, bytes[i]),
                                       hash[2], hash[3], hash[4]>>, FnvPrime)}})

fnv1a_hash(bytes) == TheOnly({FnvFold(data, 1, FnvOffsetBasis) : data \in {bytes}})


(***************************************************************************)
(* bloom_filter.cpp: BloomFilter.  A filter is a record; bits is the set   *)
(* of positions of m_bits that are true, bits_size is m_bits.size().       *)
(***************************************************************************)
\* BloomFilter(): the default constructor
BloomFilterDefault ==
    [num_bits |-> 0, num_hashes |-> 0, estimated_items |-> 0,
     fp_rate |-> <<0, 1>>, bits_size |-> 0, bits |-> {}]

\* the false positive rates of the model, as <<numerator, denominator>>:
\* 0.01 (the one main() passes), 0.3, 0.9, 1e-7, and the rejected 0.0 and 1.0.
\* For a rate p, c is floor(10^6 * -ln(p)/ln(2)^2), k is ceil(-ln(p)/ln(2)) and
\* image is the double as it lies in memory
FpRates ==
    (<<1, 100>> :> [c |-> 9585058, k |-> 7,
                    image |-> <<123, 20, 174, 71, 225, 122, 132, 63>>])
    @@ (<<3, 10>> :> [c |-> 2505911, k |-> 2,
                      image |-> <<51, 51, 51, 51, 51, 51, 211, 63>>])
    @@ (<<9, 10>> :> [c |-> 219294, k |-> 1,
                      image |-> <<205, 204, 204, 204, 204, 204, 236, 63>>])
    @@ (<<1, 10000000>> :> [c |-> 33547704, k |-> 24,
                            image |-> <<72, 175, 188, 154, 242, 215, 122, 62>>])
    @@ (<<0, 1>> :> [c |-> 0, k |-> 0, image |-> <<0, 0, 0, 0, 0, 0, 0, 0>>])
    @@ (<<1, 1>> :> [c |-> 0, k |-> 0, image |-> <<0, 0, 0, 0, 0, 0, 240, 63>>])

\* BloomFilter(estimated_items, false_positive_rate), for estimated_items
\* below 60 and for 1024 (ceil(estimated_items * -ln(p)/ln(2)^2) computed in
\* doubles is floor(estimated_items * c / 10^6) + 1 there; the product is
\* formed in two parts to stay within the integers of the checker)
BloomFilterOf(estimated_items, false_positive_rate) ==
    IF \/ estimated_items = 0
       \/ false_positive_rate[1] <= 0
       \/ false_positive_rate[1] >= false_positive_rate[2]
    THEN [num_bits |-> 8, num_hashes |-> 1, estimated_items |-> estimated_items,
          fp_rate |-> false_positive_rate, bits_size |-> 8, bits |-> {}]
    ELSE LET c == FpRates[false_positive_rate].c
             m_ceil == (estimated_items * (c \div 1000)
                          + (estimated_items * (c % 1000)) \div 1000) \div 1000 + 1
             k_ceil == FpRates[false_positive_rate].k
             m == IF m_ceil < 8 THEN 8 ELSE m_ceil
             k == IF k_ceil < 1 THEN 1 ELSE IF k_ceil > 20 THEN 20 ELSE k_ceil
         IN  [num_bits |-> m, num_hashes |-> k, estimated_items |-> estimated_items,
              fp_rate |-> false_positive_rate, bits_size |-> m, bits |-> {}]

\* the filter main() constructs: BloomFilter(estimated_items, 0.01)
BloomFilterNew(estimated_items) == BloomFilterOf(estimated_items, <<1, 100>>)

isValid(f) == f.bits_size > 0 /\ f.num_hashes > 0

\* h1 = fnv1a_hash(item) and h2 = fnv1a_hash(bytes of h1)
HashPair(item) ==
    TheOnly({<<h1, fnv1a_hash(U64Bytes(h1))>> : h1 \in {fnv1a_hash(StrBytes(item))}})

\* the two hashes of the short strings over the first three letters, tabulated
HashedItems == UNION {[1..n -> {"a", "b", "c"}] : n \in 1..MaxLen}

HashPairs == [item \in HashedItems |-> HashPair(item)] @@ <<>>

\* the positions (h1 + i * h2) % m_num_bits, i = 0 .. m_num_hashes - 1
generate_hashes(f, item) ==
    TheOnly({[i \in 1..f.num_hashes |->
                U64Mod(U64Add(h[1], U64MulSmall(h[2], i - 1)), f.num_bits)] :
               h \in {IF item \in HashedItems THEN HashPairs[item] ELSE HashPair(item)}})

Range(seq) == {seq[i] : i \in DOMAIN seq}

\* insert() setting the bit of the first hash only
insertFirstHashOnly(f, item) ==
    IF ~isValid(f) THEN f
    ELSE [f EXCEPT !.bits = @ \cup {generate_hashes(f, item)[1]}]

\* the filter after insert(item)
insert(f, item) ==
    IF ~isValid(f) THEN f
    ELSE [f EXCEPT !.bits = @ \cup Range(generate_hashes(f, item))]

\* contains() answering false for every string
containsNothing(f, item) == FALSE

contains(f, item) ==
    IF ~isValid(f) THEN FALSE
    ELSE \A h \in Range(generate_hashes(f, item)) : h \in f.bits

(***************************************************************************)
(* brute_force.cpp: pattern parsing and counting                           *)
(***************************************************************************)
Star == <<"*">>
QMark == <<"?">>

RECURSIVE ParseLoop(_, _, _, _, _)
ParseLoop(pattern, i, segments, current_segment, escape) ==
    IF i > Len(pattern)
    THEN IF current_segment # <<>> THEN Append(segments, current_segment)
         ELSE segments
    ELSE LET c == pattern[i] IN
         IF escape
         THEN ParseLoop(pattern, i + 1, segments, Append(current_segment, c), FALSE)
         ELSE IF c = "\\"
         THEN ParseLoop(pattern, i + 1, segments, current_segment, TRUE)
         ELSE IF c = "*" \/ c = "?"
         THEN ParseLoop(pattern, i + 1,
                        Append(IF current_segment # <<>>
                               THEN Append(segments, current_segment)
                               ELSE segments, <<c>>),
                        <<>>, FALSE)
         ELSE ParseLoop(pattern, i + 1, segments, Append(current_segment, c), FALSE)

parse_pattern(pattern) == ParseLoop(pattern, 1, <<>>, <<>>, FALSE)

RECURSIVE SumFrom(_, _)
SumFrom(nums, i) == IF i > Len(nums) THEN 0 ELSE nums[i] + SumFrom(nums, i + 1)

calculate_pattern_info(segments) ==
    LET fixed(seg) == IF seg = Star THEN 0 ELSE IF seg = QMark THEN 1 ELSE Len(seg)
        star(seg) == IF seg = Star THEN 1 ELSE 0
    IN  [fixed_length |-> SumFrom([i \in DOMAIN segments |-> fixed(segments[i])], 1),
         num_stars |-> SumFrom([i \in DOMAIN segments |-> star(segments[i])], 1)]

CountQMarks(segments) ==
    SumFrom([i \in DOMAIN segments |-> IF segments[i] = QMark THEN 1 ELSE 0], 1)

Some(v) == [ok |-> TRUE, val |-> v]
Nothing == [ok |-> FALSE, val |-> U64(0)]

\* variant: the product is formed without the test and wraps
RECURSIVE PowerLoopWrapping(_, _, _, _)
PowerLoopWrapping(combinations, charsetSize, i, n) ==
    IF i >= n THEN Some(combinations)
    ELSE TheOnly({PowerLoopWrapping(product, charsetSize, i + 1, n) :
                    product \in {U64MulSmall(combinations, charsetSize)}})

\* the loop "if (combinations > max / charsetSize) fail; combinations *= charsetSize"
\* run from step i to step n
RECURSIVE PowerLoop(_, _, _, _)
PowerLoop(combinations, charsetSize, i, n) ==
    IF i >= n THEN Some(combinations)
    ELSE IF U64Gt(combinations, U64DivSmall(U64Max, charsetSize)) THEN Nothing
    ELSE TheOnly({PowerLoop(product, charsetSize, i + 1, n) :
                    product \in {U64MulSmall(combinations, charsetSize)}})

\* variant: several "*" are counted like one
PatternCombinationsStarsAsOne(segments, charset_size, total_length) ==
    IF charset_size = 0 THEN Some(U64(0))
    ELSE LET info == calculate_pattern_info(segments)
             num_qmarks == CountQMarks(segments)
         IN  IF total_length < info.fixed_length THEN Some(U64(0))
             ELSE IF info.num_stars = 0
             THEN IF total_length # info.fixed_length THEN Some(U64(0))
                  ELSE IF num_qmarks = 0 THEN Some(U64(1))
                  ELSE PowerLoop(U64(1), charset_size, 0, num_qmarks)
             ELSE IF info.num_stars >= 1
             THEN LET total_wildcard_chars ==
                          num_qmarks + (total_length - info.fixed_length)
                  IN  IF total_wildcard_chars = 0 THEN Some(U64(1))
                      ELSE PowerLoop(U64(1), charset_size, 0, total_wildcard_chars)
             ELSE Nothing

calculate_pattern_combinations(segments, charset_size, total_length) ==
    IF charset_size = 0 THEN Some(U64(0))
    ELSE LET info == calculate_pattern_info(segments)
             num_qmarks == CountQMarks(segments)
         IN  IF total_length < info.fixed_length THEN Some(U64(0))
             ELSE IF info.num_stars = 0
             THEN IF total_length # info.fixed_length THEN Some(U64(0))
                  ELSE IF num_qmarks = 0 THEN Some(U64(1))
                  ELSE PowerLoop(U64(1), charset_size, 0, num_qmarks)
             ELSE IF info.num_stars = 1
             THEN LET total_wildcard_chars ==
                          num_qmarks + (total_length - info.fixed_length)
                  IN  IF total_wildcard_chars = 0 THEN Some(U64(1))
                      ELSE PowerLoop(U64(1), charset_size, 0, total_wildcard_chars)
             ELSE Nothing

\* the lambda calculate_combinations of brute_force_worker_combined; a result
\* that is not ok stands for the std::overflow_error it throws
calculate_combinations(charsetSize, length) ==
    IF length <= 0 THEN Some(U64(0))
    ELSE PowerLoop(U64(1), charsetSize, 0, length)


(***************************************************************************)
(* brute_force.cpp: index enumerators.  A result is [ok, pwd].             *)
(***************************************************************************)
Built(pwd) == [ok |-> TRUE, pwd |-> pwd]
NotBuilt == [ok |-> FALSE, pwd |-> <<>>]

\* the digit loop shared by getPasswordByIndex and sequential_password_worker:
\* pwd starts as length copies of charset[0]; current is a uint64
\* the digit loop writing the digits from the front of the string
RECURSIVE DigitLoopForward(_, _, _, _, _)
DigitLoopForward(pwd, current, i, length, charset) ==
    IF i >= length THEN pwd
    ELSE DigitLoopForward([pwd EXCEPT ![i + 1] =
                               charset[U64Mod(current, Len(charset)) + 1]],
                          U64DivSmall(current, Len(charset)), i + 1, length, charset)

RECURSIVE DigitLoop(_, _, _, _, _)
DigitLoop(pwd, current, i, length, charset) ==
    IF i >= length THEN pwd
    ELSE TheOnly({IF rest = U64(0) /\ i < length - 1 THEN written
                  ELSE DigitLoop(written, rest, i + 1, length, charset) :
                    written \in {[pwd EXCEPT ![length - i] =
                                     charset[U64Mod(current, Len(charset)) + 1]]},
                    rest \in {U64DivSmall(current, Len(charset))}})

IndexToDigits(idx, length, charset) ==
    DigitLoop([p \in 1..length |-> charset[1]], idx, 0, length, charset)

RECURSIVE GetPasswordLoop(_, _, _, _, _)
GetPasswordLoop(current_index, combinations_power, len, charset, max_possible_length) ==
    IF len > max_possible_length THEN NotBuilt
    ELSE LET charsetSize == Len(charset)
             this_len == IF len = 1 THEN Some(U64(charsetSize))
                         ELSE IF U64Gt(combinations_power, U64DivSmall(U64Max, charsetSize))
                              THEN Nothing
                              ELSE Some(U64MulSmall(combinations_power, charsetSize))
         IN  IF ~this_len.ok THEN NotBuilt
             ELSE IF U64Gt(this_len.val, current_index)
             THEN Built(DigitLoop([p \in 1..len |-> charset[1]], current_index, 0, len,
                                  charset))
             ELSE GetPasswordLoop(U64Sub(current_index, this_len.val), this_len.val,
                                  len + 1, charset, max_possible_length)

\* index is a uint64
getPasswordByIndex(index, charset, max_possible_length) ==
    IF Len(charset) = 0 THEN NotBuilt
    ELSE GetPasswordLoop(index, U64(1), 1, charset, max_possible_length)

\* the offset loop leaving the offset as it was
OffsetLoopSkipped(offset, combinations_power, len, total_wildcard_chars, charset_size) ==
    Some(offset)

\* the offset loop of getPatternPasswordByIndex: the sum of charset_size^len
\* for len = 1 .. total_wildcard_chars - 1
RECURSIVE OffsetLoop(_, _, _, _, _)
OffsetLoop(offset, combinations_power, len, total_wildcard_chars, charset_size) ==
    IF len >= total_wildcard_chars THEN Some(offset)
    ELSE LET this_len == IF len = 1 THEN Some(U64(charset_size))
                         ELSE IF U64Gt(combinations_power, U64DivSmall(U64Max, charset_size))
                              THEN Nothing
                              ELSE Some(U64MulSmall(combinations_power, charset_size))
         IN  IF ~this_len.ok THEN Nothing
             ELSE IF U64Gt(offset, U64Add(offset, this_len.val)) THEN Nothing
             ELSE OffsetLoop(U64Add(offset, this_len.val), this_len.val, len + 1,
                             total_wildcard_chars, charset_size)

\* the assembly loop of getPatternPasswordByIndex
RECURSIVE AssembleLoop(_, _, _, _, _, _)
AssembleLoop(segments, s, out_password, wildcard_idx, wildcard_values, star_len) ==
    IF s > Len(segments) THEN Built(out_password)
    ELSE IF segments[s] = QMark
    THEN IF wildcard_idx < Len(wildcard_values)
         THEN AssembleLoop(segments, s + 1,
                           Append(out_password, wildcard_values[wildcard_idx + 1]),
                           wildcard_idx + 1, wildcard_values, star_len)
         ELSE NotBuilt
    ELSE IF segments[s] = Star
    THEN IF wildcard_idx + star_len <= Len(wildcard_values)
         THEN AssembleLoop(segments, s + 1,
                           out_password \o SubSeq(wildcard_values, wildcard_idx + 1,
                                                  wildcard_idx + star_len),
                           wildcard_idx + star_len, wildcard_values, star_len)
         ELSE NotBuilt
    ELSE AssembleLoop(segments, s + 1, out_password \o segments[s],
                      wildcard_idx, wildcard_values, star_len)

getPatternPasswordByIndex(index, segments, charset, total_length) ==
    LET info == calculate_pattern_info(segments)
        num_qmarks == CountQMarks(segments)
        fixed_part_len_total == info.fixed_length
        star_len == IF info.num_stars > 0 THEN total_length - fixed_part_len_total ELSE 0
        total_wildcard_chars == num_qmarks + star_len
        offset == OffsetLoop(U64(0), U64(1), 1, total_wildcard_chars, Len(charset))
        wildcards ==
            IF total_wildcard_chars = 0 THEN Built(<<>>)
            ELSE IF ~offset.ok \/ U64Gt(offset.val, U64Add(offset.val, U64(index)))
            THEN NotBuilt
            ELSE getPasswordByIndex(U64Add(offset.val, U64(index)), charset,
                                    total_wildcard_chars)
        assembled == AssembleLoop(segments, 1, <<>>, 0, wildcards.pwd, star_len)
    IN  IF Len(charset) = 0 THEN NotBuilt
        ELSE IF total_length < fixed_part_len_total THEN NotBuilt
        ELSE IF info.num_stars = 0 /\ total_length # fixed_part_len_total THEN NotBuilt
        ELSE IF ~wildcards.ok \/ Len(wildcards.pwd) # total_wildcard_chars THEN NotBuilt
        ELSE IF ~assembled.ok \/ Len(assembled.pwd) # total_length THEN NotBuilt
        ELSE assembled

\* variant: the count of a length passed over is not taken off the index
RECURSIVE GlobalIndexLoopNoSubtract(_, _, _, _, _, _)
GlobalIndexLoopNoSubtract(current_global_index, L, segments, charset, max_len, per_length_counts) ==
    IF L > max_len THEN NotBuilt
    ELSE IF L \notin DOMAIN per_length_counts \/ per_length_counts[L] = 0
    THEN GlobalIndexLoopNoSubtract(current_global_index, L + 1, segments, charset,
                                   max_len, per_length_counts)
    ELSE IF current_global_index < per_length_counts[L]
    THEN getPatternPasswordByIndex(current_global_index, segments, charset, L)
    ELSE GlobalIndexLoopNoSubtract(current_global_index, L + 1, segments, charset,
                                   max_len, per_length_counts)

\* per_length_counts is a function from the lengths with a positive count to
\* that count
RECURSIVE GlobalIndexLoop(_, _, _, _, _, _)
GlobalIndexLoop(current_global_index, L, segments, charset, max_len, per_length_counts) ==
    IF L > max_len THEN NotBuilt
    ELSE IF L \notin DOMAIN per_length_counts \/ per_length_counts[L] = 0
    THEN GlobalIndexLoop(current_global_index, L + 1, segments, charset, max_len,
                         per_length_counts)
    ELSE IF current_global_index < per_length_counts[L]
    THEN getPatternPasswordByIndex(current_global_index, segments, charset, L)
    ELSE GlobalIndexLoop(current_global_index - per_length_counts[L], L + 1, segments,
                         charset, max_len, per_length_counts)

getPatternPasswordByGlobalIndex(global_pattern_index, segments, charset, min_len, max_len, per_length_counts) ==
    GlobalIndexLoop(global_pattern_index, min_len, segments, charset, max_len,
                    per_length_counts)


(***************************************************************************)
(* The run: configurations                                                 *)
(***************************************************************************)
Modes == {"ASCENDING", "DESCENDING", "RANDOM_LCG"}

NoPattern == <<>>
\* no pattern, a pattern of fixed length two, one with a "*", and a pattern
\* of fixed length one that is run with a longer configured length, and one
\* with two "*"
Patterns == {NoPattern, <<"a", "?">>, <<"b", "*">>, <<"a">>, <<"*", "*">>}

\* two letters, three letters (a count the threads do not divide), and the
\* sixteen letters whose sixteenth power leaves 64 bits
Charsets == {<<"a", "b">>, <<"a", "b", "c">>, Letters}

\* the ranges of the short lengths, the length whose count leaves 64 bits,
\* and that length together with the one below it
LengthRanges ==
    {r \in (1..MaxLen) \X (1..MaxLen) : r[1] <= r[2]}
        \cup {<<OverflowLen, OverflowLen>>, <<OverflowLen - 1, OverflowLen>>}

Repeat(c, n) == [i \in 1..n |-> c]

\* what the oracle accepts: nothing, one string, or two strings; or the
\* first string of the length below max_length
AcceptChoices(max_length) ==
    {{}, {Repeat("b", max_length)}, {Repeat("a", max_length), Repeat("b", max_length)},
     {Repeat("a", max_length - 1)}}

\* the number of candidates of a configuration when it is below 2^30, else -1
RECURSIVE CountRange(_, _, _, _)
CountRange(charset, pattern, L, max_length) ==
    IF L > max_length THEN 0
    ELSE LET n == IF pattern = NoPattern THEN calculate_combinations(Len(charset), L)
                  ELSE calculate_pattern_combinations(parse_pattern(pattern),
                                                      Len(charset), L)
             rest == CountRange(charset, pattern, L + 1, max_length)
         IN  IF ~n.ok \/ ~U64Fits(n.val) \/ rest < 0 THEN -1
             ELSE U64ToInt(n.val) + rest

\* a run over 2^10 candidates, more than the workers' interval of 1000
\* iterations between two looks at the stop flag file
LongLen == 10

LongConfigs ==
    [charset : {<<"a", "b">>}, min_length : {LongLen}, max_length : {LongLen},
     mode : {"ASCENDING"}, pattern : {NoPattern}, skip_file : {TRUE},
     checkpointInterval : {0}, numThreads : {1}, accepts : {{}}]

Configs ==
    {c \in UNION {[charset : Charsets, min_length : {r[1]}, max_length : {r[2]},
                   mode : Modes, pattern : Patterns, skip_file : BOOLEAN,
                   checkpointInterval : 0..1, numThreads : 1..MaxThreads,
                   accepts : AcceptChoices(r[2])] : r \in LengthRanges} :
        /\ c.checkpointInterval > 0 => c.skip_file /\ c.numThreads = 1
        /\ c.pattern \notin {NoPattern, <<"a">>} => c.min_length = 1 /\ c.max_length = MaxLen
        /\ c.pattern = <<"a">> => c.min_length = MaxLen /\ c.max_length = MaxLen
        /\ c.max_length = OverflowLen <=> c.charset = Letters
        \* a length of 16^15 candidates is only walked up to its first string
        /\ c.min_length = OverflowLen - 1 <=> c.accepts = {Repeat("a", c.max_length - 1)}
        /\ c.min_length = OverflowLen - 1 => c.numThreads = 1
        /\ Len(c.charset) = 3 => c.max_length = 1 /\ c.pattern = NoPattern
        /\ c.mode = "RANDOM_LCG" =>
               CountRange(c.charset, c.pattern, c.min_length, c.max_length) <= MaxShuffle}

(***************************************************************************)
(* main.cpp: the skip list set-up of main()                                *)
(***************************************************************************)
\* the largest estimated_items whose tentative_num_bits does not exceed
\* MAX_FILTER_BITS = 4 GiB * 8: 3584718737
MaxItemsForFilterBits == <<30609, 54698, 0, 0>>

RECURSIVE EstimateLoop(_, _, _, _)
EstimateLoop(len, max_length, cs, estimated_items_in_range) ==
    IF len > max_length THEN Some(estimated_items_in_range)
    ELSE TheOnly({IF ~combinations_this_len.ok THEN Nothing
                  ELSE TheOnly({IF U64Gt(estimated_items_in_range, sum) THEN Nothing
                                ELSE EstimateLoop(len + 1, max_length, cs, sum) :
                                  sum \in {U64Add(estimated_items_in_range,
                                                  combinations_this_len.val)}}) :
                    combinations_this_len \in {PowerLoop(U64(1), cs, 0, len)}})

\* the skip list as main() hands it to the controller when no skip file
\* exists yet: [path, filter], path false when skipListFilePath is empty
NewSkipList(c) ==
    LET estimated == EstimateLoop(c.min_length, c.max_length, Len(c.charset), U64(0))
        disabled == [path |-> FALSE, filter |-> BloomFilterDefault]
    IN  IF ~c.skip_file THEN disabled
        ELSE IF Len(c.charset) = 0 \/ ~estimated.ok THEN disabled
        ELSE IF estimated.val = U64(0) THEN disabled
        ELSE IF U64Gt(estimated.val, MaxItemsForFilterBits) THEN disabled
        ELSE [path |-> TRUE, filter |-> BloomFilterNew(U64ToInt(estimated.val))]

(***************************************************************************)
(* bloom_filter.cpp: serialize and deserialize.  A file is [exists, bytes]. *)
(***************************************************************************)
NoFile == [exists |-> FALSE, bytes |-> <<>>]

\* BLOOM_FILTER_MAGIC = 0xBF10F17E and BLOOM_FILTER_VERSION = 1 as written
BLOOM_FILTER_MAGIC == <<126, 241, 16, 191>>
BLOOM_FILTER_VERSION == <<1, 0>>

\* the header is magic (4), version (2), m_num_bits (8), m_num_hashes (4),
\* m_estimated_items (8), m_fp_rate (8)
HeaderSize == 34

\* a uint32_t as it lies in memory
U32Bytes(n) == <<n % 256, (n \div 256) % 256, (n \div 65536) % 256, n \div 16777216>>

\* the bits packed with the first bit of a byte in its highest position
PackBitsHighFirst(f) ==
    [j \in 1..((f.num_bits + 7) \div 8) |->
       SumFrom([i \in 1..8 |-> IF 8 * (j - 1) + (i - 1) < f.num_bits
                                   /\ 8 * (j - 1) + (i - 1) \in f.bits
                                THEN 2^(8 - i) ELSE 0], 1)]

\* packed_bits[i / 8] |= (1 << (i % 8)) for every set bit i < m_num_bits
PackBits(f) ==
    [j \in 1..((f.num_bits + 7) \div 8) |->
       SumFrom([i \in 1..8 |-> IF 8 * (j - 1) + (i - 1) < f.num_bits
                                   /\ 8 * (j - 1) + (i - 1) \in f.bits
                                THEN 2^(i - 1) ELSE 0], 1)]

\* the bytes serialize() writes for a valid filter
serialize(f) ==
    BLOOM_FILTER_MAGIC \o BLOOM_FILTER_VERSION \o U64Bytes(U64(f.num_bits))
    \o U32Bytes(f.num_hashes) \o U64Bytes(U64(f.estimated_items))
    \o FpRates[f.fp_rate].image \o PackBits(f)

\* m_bits[i] = (packed_bits[i / 8] >> (i % 8)) & 1
UnpackBits(packed_bits, num_bits) ==
    {i \in 0..(num_bits - 1) : (packed_bits[(i \div 8) + 1] \div 2^(i % 8)) % 2 = 1}

\* ifs.read into an unsigned integer of n bytes
ReadLE(b, from, n) == SumFrom([i \in 1..n |-> b[from + i - 1] * 256^(i - 1)], 1)

\* deserialize(filepath) called on the filter f: [ret, filter].  ret is
\* "true", "false", or "threw" when std::vector<uint8_t> packed_bits(num_bytes)
\* throws; alloc_ok says whether an allocation of 2^27 bytes or more succeeds.
\* A num_bits of 2^30 stands for any larger value read from the file
deserialize(f, disk, alloc_ok) ==
    LET b == disk.bytes
        le(from, n) == ReadLE(b, from, n)
        m == <<le(7, 2), le(9, 2), le(11, 2), le(13, 2)>>
        k == le(15, 4)
        items == <<le(19, 2), le(21, 2), le(23, 2), le(25, 2)>>
        rates == {r \in DOMAIN FpRates : FpRates[r].image = SubSeq(b, 27, 34)}
        read == [f EXCEPT
                   !.estimated_items = IF Len(b) >= 26 /\ U64Fits(items)
                                       THEN U64ToInt(items) ELSE @,
                   !.fp_rate = IF Len(b) >= HeaderSize /\ rates # {}
                               THEN TheOnly(rates) ELSE @]
        invalidated == [read EXCEPT !.num_bits = 0, !.num_hashes = 0]
        num_bytes == (U64ToInt(m) + 7) \div 8
    IN  IF ~disk.exists THEN [ret |-> "false", filter |-> f]
        ELSE IF Len(b) < 4 \/ SubSeq(b, 1, 4) # BLOOM_FILTER_MAGIC
        THEN [ret |-> "false", filter |-> f]
        ELSE IF Len(b) < 6 \/ SubSeq(b, 5, 6) # BLOOM_FILTER_VERSION
        THEN [ret |-> "false", filter |-> f]
        ELSE IF Len(b) < HeaderSize \/ m = U64(0) \/ k = 0
        THEN [ret |-> "false", filter |-> invalidated]
        ELSE IF ~U64Fits(m)
        THEN IF alloc_ok THEN [ret |-> "false", filter |-> invalidated]
             ELSE [ret |-> "threw",
                   filter |-> [read EXCEPT !.num_bits = 2^30, !.num_hashes = k]]
        ELSE IF Len(b) # HeaderSize + num_bytes
        THEN [ret |-> "false", filter |-> invalidated]
        ELSE [ret |-> "true",
              filter |-> [read EXCEPT !.num_bits = U64ToInt(m), !.num_hashes = k,
                                      !.bits_size = U64ToInt(m),
                                      !.bits = UnpackBits(SubSeq(b, HeaderSize + 1, Len(b)),
                                                          U64ToInt(m))]]

(***************************************************************************)
(* The run: state                                                          *)
(***************************************************************************)
VARIABLES
    cfg,                     \* the command line, and what the oracle accepts
    stopFile,                \* the file skipListFilePath + ".stop" exists
    file,                    \* the skip list file
    skipFilter,              \* main.cpp: BloomFilter skipFilter
    skipListFilePath,        \* main.cpp: skipListFilePath is not empty
    filterMutex,             \* main.cpp: skipFilterMutex, its holder
    ctl,                     \* brute_force_worker_combined: locals and position
    wk,                      \* the worker threads of the current dispatch
    foundFlag,               \* std::atomic<bool> foundFlag
    foundPassword_internal,  \* std::string foundPassword_internal
    stop_requested,          \* std::atomic<bool> stop_requested
    stdout,                  \* the FOUND: lines written to standard output
    exitCode,                \* the exit status of main(), -1 while running
    oracleAccepted,          \* passwords tryPassword returned true for
    tested,                  \* bag of the passwords handed to tryPassword
    saves,                   \* the serialize() calls made so far
    pwdWrites,               \* number of stores to foundPassword_internal
    bf,                      \* a BloomFilter object and a file, on their own
    probe,                   \* calls of the index-to-password functions
    proc,                    \* main(): the command line and how far it got
    prev                     \* what the run before this one tested and found

vars == <<cfg, stopFile, file, skipFilter, skipListFilePath, filterMutex, ctl, wk,
          foundFlag, foundPassword_internal, stop_requested, stdout, exitCode,
          oracleAccepted, tested, saves, pwdWrites, bf, probe, proc, prev>>

\* the variables that only the specifications of the single units use
aside == <<bf, probe, proc>>
Unused == [pc |-> "unused"]
NoRunBefore == [run |-> 1]

Threads == 0..(MaxThreads - 1)
\* the threads of the model are the workers and, after them, the controller;
\* a mutex is the set of the threads that hold it
Controller == MaxThreads
Free == {}

IdleWorker == [pc |-> "idle", idx |-> U64(0), end_idx |-> U64(0), pwd |-> <<>>,
               start_idx |-> U64(0),
               started_stopped |-> FALSE, started_found |-> FALSE,
               calls_after_stop |-> 0, calls_after_flag |-> 0,
               calls_after_found |-> 0]

AbsentFile == [state |-> "absent", image |-> BloomFilterDefault]

Init ==
    /\ cfg \in Configs
    /\ stopFile = FALSE
    /\ file = AbsentFile
    /\ skipFilter = NewSkipList(cfg).filter
    /\ skipListFilePath = NewSkipList(cfg).path
    /\ filterMutex = Free
    /\ ctl = [pc |-> "enter", min_length |-> cfg.min_length,
              max_length |-> cfg.max_length, mode |-> cfg.mode, segments |-> <<>>,
              kind |-> "none", length |-> 0, total |-> U64(0), t |-> 0,
              indices |-> <<>>, prefix |-> 0, per_length_counts |-> <<>>,
              spawned_after_stop |-> 0, stop_at_entry |-> FALSE,
              elapsed |-> 0, checkpointed |-> FALSE, dispatched |-> <<>>, threw |-> FALSE, spawn_failed |-> {}, foundMutex |-> Free,
              ret |-> <<>>]
    /\ wk = [w \in Threads |-> IdleWorker]
    /\ foundFlag = FALSE
    /\ foundPassword_internal = <<>>
    /\ stop_requested = FALSE
    /\ stdout = <<>>
    /\ exitCode = -1
    /\ oracleAccepted = {}
    /\ tested = EmptyBag
    /\ saves = {}
    /\ pwdWrites = 0
    /\ bf = Unused
    /\ probe = Unused
    /\ proc = Unused
    /\ prev = NoRunBefore


\* the runs of Init and the run over many candidates
LongInit ==
    /\ cfg \in Configs \cup LongConfigs
    /\ stopFile = FALSE
    /\ file = AbsentFile
    /\ skipFilter = NewSkipList(cfg).filter
    /\ skipListFilePath = NewSkipList(cfg).path
    /\ filterMutex = Free
    /\ ctl = [pc |-> "enter", min_length |-> cfg.min_length,
              max_length |-> cfg.max_length, mode |-> cfg.mode, segments |-> <<>>,
              kind |-> "none", length |-> 0, total |-> U64(0), t |-> 0,
              indices |-> <<>>, prefix |-> 0, per_length_counts |-> <<>>,
              spawned_after_stop |-> 0, stop_at_entry |-> FALSE,
              elapsed |-> 0, checkpointed |-> FALSE, dispatched |-> <<>>, threw |-> FALSE, spawn_failed |-> {}, foundMutex |-> Free,
              ret |-> <<>>]
    /\ wk = [w \in Threads |-> IdleWorker]
    /\ foundFlag = FALSE
    /\ foundPassword_internal = <<>>
    /\ stop_requested = FALSE
    /\ stdout = <<>>
    /\ exitCode = -1
    /\ oracleAccepted = {}
    /\ tested = EmptyBag
    /\ saves = {}
    /\ pwdWrites = 0
    /\ bf = Unused
    /\ probe = Unused
    /\ proc = Unused
    /\ prev = NoRunBefore

(***************************************************************************)
(* brute_force.cpp: brute_force_worker_combined, the run controller        *)
(***************************************************************************)
\* filter && filterMutex: main() passes both or neither
FilterOn == skipListFilePath

\* !stop_flag_path.empty() && stop_flag_exists(stop_flag_path)
StopFlagSeen == FilterOn /\ stopFile

\* the lambda check_stop_flag: its result, and stop_requested after it
CheckStopFlag == StopFlagSeen \/ stop_requested

Running(w) == wk[w].pc \notin {"idle", "done"}

\* what serialize(skipListFilePath) can leave in the file: the image of the
\* filter, the old file (it could not be opened), or a file cut short
SerializeOutcomes(f) ==
    IF ~isValid(f) THEN {file}
    ELSE {[state |-> "saved", image |-> f], file,
          [state |-> "truncated", image |-> BloomFilterDefault]}

SaveEvent(by, at) ==
    [by |-> by, at |-> at, running |-> {w \in Threads : w # by /\ Running(w)}]

Step(mode) == IF mode = "ASCENDING" THEN 1 ELSE -1

\* variant: both directions start at min_length
StartLenAlwaysMin(mode, min_length, max_length) == min_length

StartLen(mode, min_length, max_length) ==
    IF mode = "ASCENDING" THEN min_length ELSE max_length

\* variant: min_length is raised to the pattern's fixed length and never lowered
CoercedLengthsMinRaisedOnly(min_length, max_length, info) ==
    LET min1 == IF min_length < info.fixed_length THEN info.fixed_length ELSE min_length
        max1 == IF info.num_stars = 0 THEN info.fixed_length ELSE max_length
        max2 == IF max1 < min1 THEN min1 ELSE max1
    IN  [min_length |-> min1, max_length |-> max2]

\* "Adjust min/max length based on pattern constraints": min_length is
\* raised to the fixed length; without a "*" both are set to the fixed
\* length; max_length is raised to min_length
CoercedLengths(min_length, max_length, info) ==
    LET min1 == IF min_length < info.fixed_length THEN info.fixed_length ELSE min_length
        max1 == IF info.num_stars = 0 THEN info.fixed_length ELSE max_length
        min2 == IF info.num_stars = 0 THEN info.fixed_length ELSE min1
        max2 == IF max1 < min2 THEN min2 ELSE max1
    IN  [min_length |-> min2, max_length |-> max2]

\* entry: parameter check, pattern parsing and the length adjustments
Enter ==
    /\ ctl.pc = "enter"
    /\ \E segments \in {parse_pattern(cfg.pattern)} :
       \E info \in {calculate_pattern_info(segments)} :
       \E lengths \in {CoercedLengths(cfg.min_length, cfg.max_length, info)} :
       LET min2 == lengths.min_length
           max2 == lengths.max_length
           mode1 == IF cfg.mode = "RANDOM_LCG" /\ info.num_stars > 1 THEN "ASCENDING"
                    ELSE cfg.mode
       IN  IF Len(cfg.charset) = 0 \/ cfg.min_length <= 0
              \/ cfg.max_length < cfg.min_length
           THEN ctl' = [ctl EXCEPT !.stop_at_entry = stopFile, !.pc = "report"]
           ELSE IF cfg.pattern # NoPattern
           THEN ctl' = [ctl EXCEPT !.stop_at_entry = stopFile,
                          !.segments = segments, !.min_length = min2,
                          !.max_length = max2, !.mode = mode1,
                          !.kind = IF mode1 = "RANDOM_LCG" THEN "shuffled_pattern"
                                   ELSE "pattern_index",
                          !.length = StartLen(mode1, min2, max2),
                          !.pc = IF mode1 = "RANDOM_LCG" THEN "rand_setup" ELSE "loop"]
           ELSE ctl' = [ctl EXCEPT !.stop_at_entry = stopFile,
                          !.kind = IF cfg.mode = "RANDOM_LCG" THEN "shuffled_index"
                                   ELSE "sequential",
                          !.length = StartLen(cfg.mode, cfg.min_length, cfg.max_length),
                          !.pc = IF cfg.mode = "RANDOM_LCG" THEN "rand_setup" ELSE "loop"]
    /\ UNCHANGED <<aside, prev, cfg, stopFile, file, skipFilter, skipListFilePath, filterMutex, wk,
                   foundFlag, foundPassword_internal, stop_requested, stdout, exitCode,
                   oracleAccepted, tested, saves, pwdWrites>>

\* random pattern mode: per_length_counts and total_pattern_combinations
RECURSIVE PatternCountsLoop(_, _, _, _, _, _)
PatternCountsLoop(L, max_length, segments, cs, counts, total) ==
    IF L > max_length THEN [ok |-> TRUE, counts |-> counts, val |-> total]
    ELSE LET countOpt == calculate_pattern_combinations(segments, cs, L)
             sum == U64Add(total, countOpt.val)
         IN  IF ~countOpt.ok \/ U64Gt(total, sum)
             THEN [ok |-> FALSE, counts |-> counts, val |-> total]
             ELSE IF countOpt.val = U64(0)
             THEN PatternCountsLoop(L + 1, max_length, segments, cs, counts, total)
             ELSE PatternCountsLoop(L + 1, max_length, segments, cs,
                                    counts @@ (L :> U64ToInt(countOpt.val)), sum)

\* variant: the limit is one entry lower
OneBelowFourGiB == 2^29 - 1

\* (4ULL * 1024 * 1024 * 1024) / sizeof(uint64)
MAX_REASONABLE_INDICES_RAM == 2^29

\* the counting of both random modes when no stop flag is seen: the prefix
\* and the target count (no pattern) or the per-length counts and their sum
\* (pattern), and what the controller does with the total: "failed" and
\* "too_large" are the branches that report an ERROR and build no vector
RandomPlan(cs, min_length, max_length, segments, isPattern) ==
    TheOnly({LET calculation_ok == IF isPattern THEN pat.ok ELSE prefix.ok /\ target.ok
                 total == IF isPattern THEN pat.val ELSE target.val
             IN  [total |-> total,
                  prefix |-> IF isPattern THEN U64(0) ELSE prefix.val,
                  per_length_counts |-> IF isPattern THEN pat.counts ELSE <<>>,
                  outcome |->
                    IF ~calculation_ok THEN "failed"
                    ELSE IF total = U64(0) THEN "zero"
                    ELSE IF U64Gt(total, U64(MAX_REASONABLE_INDICES_RAM)) THEN "too_large"
                    ELSE "shuffle"] :
               prefix \in {IF isPattern THEN Some(U64(0))
                           ELSE EstimateLoop(1, min_length - 1, cs, U64(0))},
               target \in {IF isPattern THEN Some(U64(0))
                           ELSE EstimateLoop(min_length, max_length, cs, U64(0))},
               pat \in {IF isPattern
                        THEN PatternCountsLoop(min_length, max_length, segments, cs,
                                               <<>>, U64(0))
                        ELSE [ok |-> TRUE, counts |-> <<>>, val |-> U64(0)]}})

\* the set-up of both random modes up to the shuffle; every check_stop_flag()
\* made before the first thread is spawned has the same effect, so the set-up
\* is one step that either sees the stop flag or does not
RandSetup ==
    /\ ctl.pc = "rand_setup"
    /\ \E plan \in {RandomPlan(Len(cfg.charset), ctl.min_length, ctl.max_length,
                                ctl.segments, ctl.kind = "shuffled_pattern")} :
       LET isPattern == ctl.kind = "shuffled_pattern"
           fallback == [ctl EXCEPT !.mode = "ASCENDING", !.kind = "pattern_index",
                                   !.length = ctl.min_length, !.pc = "loop"]
       IN  IF StopFlagSeen
           THEN /\ stop_requested' = TRUE
                /\ ctl' = [ctl EXCEPT !.pc = "final"]
           ELSE /\ stop_requested' = stop_requested
                /\ IF plan.outcome \in {"failed", "too_large"}
                   THEN ctl' = IF isPattern THEN fallback ELSE [ctl EXCEPT !.pc = "final"]
                   ELSE IF plan.outcome = "zero"
                   THEN ctl' = [ctl EXCEPT !.pc = "final"]
                   ELSE \E shuffled \in Permutations(0..(U64ToInt(plan.total) - 1)) :
                          ctl' = [ctl EXCEPT
                                    !.indices = shuffled, !.total = plan.total,
                                    !.prefix = U64ToInt(plan.prefix),
                                    !.per_length_counts = plan.per_length_counts,
                                    !.t = 0, !.pc = "spawn"]
    /\ UNCHANGED <<aside, prev, cfg, stopFile, file, skipFilter, skipListFilePath, filterMutex, wk,
                   foundFlag, foundPassword_internal, stdout, exitCode,
                   oracleAccepted, tested, saves, pwdWrites>>

\* variant: a length that cannot be counted is not left
LoopStepStaysAtSkip ==
    /\ ctl.pc = "loop"
    /\ LET inRange == IF Step(ctl.mode) = 1 THEN ctl.length <= ctl.max_length
                      ELSE ctl.length >= ctl.min_length
           checked == inRange /\ ~foundFlag
       IN  \E n \in {IF ctl.kind = "sequential"
                     THEN calculate_combinations(Len(cfg.charset), ctl.length)
                     ELSE calculate_pattern_combinations(ctl.segments, Len(cfg.charset),
                                                         ctl.length)} :
           /\ stop_requested' = (stop_requested \/ (checked /\ StopFlagSeen))
           /\ IF ~checked \/ CheckStopFlag
              THEN ctl' = [ctl EXCEPT !.pc = "final"]
              ELSE IF ~n.ok \/ n.val = U64(0)
              THEN ctl' = ctl
              ELSE ctl' = [ctl EXCEPT !.total = n.val, !.t = 0, !.pc = "spawn",
                                      !.dispatched = Append(@, ctl.length)]
    /\ UNCHANGED <<aside, prev, cfg, stopFile, file, skipFilter, skipListFilePath, filterMutex, wk,
                   foundFlag, foundPassword_internal, stdout, exitCode,
                   oracleAccepted, tested, saves, pwdWrites>>

\* variant: a length that cannot be counted ends the walk
LoopStepEndsAtSkip ==
    /\ ctl.pc = "loop"
    /\ LET inRange == IF Step(ctl.mode) = 1 THEN ctl.length <= ctl.max_length
                      ELSE ctl.length >= ctl.min_length
           checked == inRange /\ ~foundFlag
       IN  \E n \in {IF ctl.kind = "sequential"
                     THEN calculate_combinations(Len(cfg.charset), ctl.length)
                     ELSE calculate_pattern_combinations(ctl.segments, Len(cfg.charset),
                                                         ctl.length)} :
           /\ stop_requested' = (stop_requested \/ (checked /\ StopFlagSeen))
           /\ IF ~checked \/ CheckStopFlag
              THEN ctl' = [ctl EXCEPT !.pc = "final"]
              ELSE IF ~n.ok \/ n.val = U64(0)
              THEN ctl' = [ctl EXCEPT !.pc = "final"]
              ELSE ctl' = [ctl EXCEPT !.total = n.val, !.t = 0, !.pc = "spawn",
                                      !.dispatched = Append(@, ctl.length)]
    /\ UNCHANGED <<aside, prev, cfg, stopFile, file, skipFilter, skipListFilePath, filterMutex, wk,
                   foundFlag, foundPassword_internal, stdout, exitCode,
                   oracleAccepted, tested, saves, pwdWrites>>

\* the head of the length loop of the ascending and descending modes: the
\* loop condition, the count of the length, and the skip of a length
LoopStep ==
    /\ ctl.pc = "loop"
    /\ LET inRange == IF Step(ctl.mode) = 1 THEN ctl.length <= ctl.max_length
                      ELSE ctl.length >= ctl.min_length
           checked == inRange /\ ~foundFlag
       IN  \E n \in {IF ctl.kind = "sequential"
                     THEN calculate_combinations(Len(cfg.charset), ctl.length)
                     ELSE calculate_pattern_combinations(ctl.segments, Len(cfg.charset),
                                                         ctl.length)} :
           /\ stop_requested' = (stop_requested \/ (checked /\ StopFlagSeen))
           /\ IF ~checked \/ CheckStopFlag
              THEN ctl' = [ctl EXCEPT !.pc = "final"]
              ELSE IF ~n.ok \/ n.val = U64(0)
              THEN ctl' = [ctl EXCEPT !.length = @ + Step(ctl.mode)]
              ELSE ctl' = [ctl EXCEPT !.total = n.val, !.t = 0, !.pc = "spawn",
                                      !.dispatched = Append(@, ctl.length)]
    /\ UNCHANGED <<aside, prev, cfg, stopFile, file, skipFilter, skipListFilePath, filterMutex, wk,
                   foundFlag, foundPassword_internal, stdout, exitCode,
                   oracleAccepted, tested, saves, pwdWrites>>

\* variant: the division rounds down
ItemsPerThreadFloor(total, numThreads) ==
    TheOnly({IF itemsPerThread = U64(0) THEN U64(1) ELSE itemsPerThread :
               itemsPerThread \in {U64DivSmall(total, numThreads)}})

\* uint64 itemsPerThread = (total + numThreads - 1) / numThreads, 1 when it is 0
ItemsPerThread(total, numThreads) ==
    TheOnly({IF itemsPerThread = U64(0) THEN U64(1) ELSE itemsPerThread :
               itemsPerThread \in {U64DivSmall(U64Add(total, U64(numThreads - 1)),
                                               numThreads)}})

\* uint64 startIdx = t * itemsPerThread
ChunkStart(t) == U64MulSmall(ItemsPerThread(ctl.total, cfg.numThreads), t)

\* variant: the end of a chunk is not cut at the total
ChunkEndUnclamped(t) ==
    U64Add(ChunkStart(t), ItemsPerThread(ctl.total, cfg.numThreads))

\* uint64 endIdx = std::min(startIdx + itemsPerThread, total)
ChunkEnd(t) ==
    TheOnly({IF U64Gt(sum, ctl.total) THEN ctl.total ELSE sum :
               sum \in {U64Add(ChunkStart(t),
                               ItemsPerThread(ctl.total, cfg.numThreads))}})

\* the spawn loop up to the decision to start thread t:
\* "if (check_stop_flag()) break; ... if (startIdx >= endIdx) break;"
SpawnCheck ==
    /\ ctl.pc = "spawn"
    /\ stop_requested' = (stop_requested \/ StopFlagSeen)
    /\ IF CheckStopFlag \/ ~U64Gt(ChunkEnd(ctl.t), ChunkStart(ctl.t))
       THEN ctl' = [ctl EXCEPT !.pc = "join"]
       ELSE ctl' = [ctl EXCEPT !.pc = "create"]
    /\ UNCHANGED <<aside, prev, cfg, stopFile, file, skipFilter, skipListFilePath, filterMutex, wk,
                   foundFlag, foundPassword_internal, stdout, exitCode,
                   oracleAccepted, tested, saves, pwdWrites>>

\* threads.emplace_back(worker, startIdx, endIdx, ...), then ++t and the loop test
SpawnCreate ==
    /\ ctl.pc = "create"
    /\ wk' = [wk EXCEPT ![ctl.t] =
                [IdleWorker EXCEPT !.pc = "guard", !.idx = ChunkStart(ctl.t),
                                   !.start_idx = ChunkStart(ctl.t),
                                   !.end_idx = ChunkEnd(ctl.t),
                                   !.started_stopped = stop_requested,
                                   !.started_found = foundFlag]]
    /\ ctl' = [ctl EXCEPT
                 !.t = @ + 1,
                 !.spawned_after_stop = IF stop_requested /\ @ < 2 THEN @ + 1 ELSE @,
                 !.pc = IF ctl.t + 1 < cfg.numThreads THEN "spawn" ELSE "join"]
    /\ UNCHANGED <<aside, prev, cfg, stopFile, file, skipFilter, skipListFilePath, filterMutex,
                   foundFlag, foundPassword_internal, stop_requested, stdout, exitCode,
                   oracleAccepted, tested, saves, pwdWrites>>

\* variant: the controller does not wait for the workers
AllJoinedNoWait == TRUE

AllJoined == \A w \in Threads : ~Running(w)

\* variant: a checkpoint is written after every join
CheckpointDueAtEveryJoin(elapsed) ==
    /\ FilterOn
    /\ ~stop_requested

\* the two conditions of checkpoint_filter_func: the filter is there, the
\* interval is positive and no stop was requested; and the interval has passed
CheckpointDue(elapsed) ==
    /\ FilterOn
    /\ cfg.checkpointInterval > 0
    /\ ~stop_requested
    /\ elapsed >= cfg.checkpointInterval

\* "for (auto &th : threads) th.join();" and then checkpoint_filter_func();
\* elapsed is the number of seconds since lastCheckpointTime
JoinAndCheckpoint ==
    /\ ctl.pc = "join"
    /\ AllJoined
    /\ \E elapsed \in 0..MaxElapsed, written \in SerializeOutcomes(skipFilter) :
         LET due == CheckpointDue(elapsed)
             \* the clock is noted where a checkpoint is configured
             noted == IF FilterOn /\ cfg.checkpointInterval > 0 THEN elapsed
                      ELSE ctl.elapsed
         IN  /\ file' = IF due THEN written ELSE file
             /\ saves' = IF due THEN saves \cup {SaveEvent(Controller, "checkpoint")}
                         ELSE saves
             /\ ctl' = IF ctl.mode = "RANDOM_LCG"
                       THEN [ctl EXCEPT !.elapsed = noted, !.checkpointed = due,
                                        !.pc = "final"]
                       ELSE [ctl EXCEPT !.elapsed = noted, !.checkpointed = due,
                                        !.length = @ + Step(ctl.mode), !.pc = "loop"]
    /\ wk' = [w \in Threads |-> IdleWorker]
    /\ UNCHANGED <<aside, prev, cfg, stopFile, skipFilter, skipListFilePath, filterMutex,
                   foundFlag, foundPassword_internal, stop_requested, stdout, exitCode,
                   oracleAccepted, tested, pwdWrites>>

\* variant: a stop request alone is no reason to save
performFinalSaveFoundOnly ==
    /\ FilterOn
    /\ isValid(skipFilter)
    /\ foundFlag

\* bool performFinalSave = filter && filterMutex && !skipListFilePath.empty()
\*                         && filter->isValid() && (foundFlag || stopped)
performFinalSave ==
    /\ FilterOn
    /\ isValid(skipFilter)
    /\ (foundFlag \/ stop_requested)

\* variant: a stop request takes precedence over a found password
ReturnValueUnlessStopped ==
    IF foundFlag /\ ~stop_requested THEN foundPassword_internal ELSE <<>>

\* the value brute_force_worker_combined returns
ReturnValue == IF foundFlag THEN foundPassword_internal ELSE <<>>

\* the final save and the return
Finalize ==
    /\ ctl.pc = "final"
    /\ performFinalSave => filterMutex = Free
    /\ foundFlag => ctl.foundMutex = Free
    /\ \E written \in SerializeOutcomes(skipFilter) :
         /\ file' = IF performFinalSave THEN written ELSE file
         /\ saves' = IF performFinalSave
                     THEN saves \cup {SaveEvent(Controller, "final")} ELSE saves
    /\ ctl' = [ctl EXCEPT !.ret = ReturnValue, !.pc = "report"]
    /\ UNCHANGED <<aside, prev, cfg, stopFile, skipFilter, skipListFilePath, filterMutex, wk,
                   foundFlag, foundPassword_internal, stop_requested, stdout, exitCode,
                   oracleAccepted, tested, pwdWrites>>

(***************************************************************************)
(* main.cpp: the report of the result and the exit status                  *)
(***************************************************************************)
\* variant: a run ended by the stop flag counts as a success
ExitStatusStopIsSuccess(found_pwd) ==
    IF found_pwd # <<>> \/ stop_requested THEN 0 ELSE 1

\* variant: a run that was asked to stop exits with 1 whatever it found
ExitStatusStoppedIsFailure(found_pwd) ==
    IF found_pwd # <<>> /\ ~stop_requested THEN 0 ELSE 1

\* "return 0" after the FOUND: line, "return 1" otherwise
ExitStatus(found_pwd) == IF found_pwd # <<>> THEN 0 ELSE 1

\* variant: the core removes the stop flag file when it reports
ReportRemovesStopFile ==
    /\ ctl.pc = "report"
    /\ stdout' = IF ctl.ret # <<>> THEN Append(stdout, ctl.ret) ELSE stdout
    /\ exitCode' = ExitStatus(ctl.ret)
    /\ ctl' = [ctl EXCEPT !.pc = "exited"]
    /\ stopFile' = FALSE
    /\ UNCHANGED <<aside, prev, cfg, file, skipFilter, skipListFilePath, filterMutex, wk,
                   foundFlag, foundPassword_internal, stop_requested,
                   oracleAccepted, tested, saves, pwdWrites>>

Report ==
    /\ ctl.pc = "report"
    /\ stdout' = IF ctl.ret # <<>> THEN Append(stdout, ctl.ret) ELSE stdout
    /\ exitCode' = ExitStatus(ctl.ret)
    /\ ctl' = [ctl EXCEPT !.pc = "exited"]
    /\ UNCHANGED <<aside, prev, cfg, stopFile, file, skipFilter, skipListFilePath, filterMutex, wk,
                   foundFlag, foundPassword_internal, stop_requested,
                   oracleAccepted, tested, saves, pwdWrites>>

(***************************************************************************)
(* brute_force.cpp: the four worker threads                                *)
(*   sequential_password_worker, pattern_index_worker,                     *)
(*   shuffled_index_worker, shuffled_pattern_worker                        *)
(* They differ in how an index becomes a password and in what they do when *)
(* they see the stop flag file; ctl.kind says which one a dispatch runs.   *)
(***************************************************************************)
\* "if (idx % 1000 == 0)"
StopCheckInterval == 1000

PatternKind == ctl.kind \in {"pattern_index", "shuffled_pattern"}

\* variant: the shuffled index worker does not add global_index_offset
BuildPasswordNoOffset(w) ==
    CASE ctl.kind = "sequential" ->
           Built(IndexToDigits(wk[w].idx, ctl.length, cfg.charset))
      [] ctl.kind = "pattern_index" ->
           getPatternPasswordByIndex(U64ToInt(wk[w].idx), ctl.segments, cfg.charset,
                                     ctl.length)
      [] ctl.kind = "shuffled_index" ->
           getPasswordByIndex(U64(ctl.indices[U64ToInt(wk[w].idx)]), cfg.charset,
                              ctl.max_length)
      [] ctl.kind = "shuffled_pattern" ->
           getPatternPasswordByGlobalIndex(ctl.indices[U64ToInt(wk[w].idx)], ctl.segments,
                                           cfg.charset, ctl.min_length, ctl.max_length,
                                           ctl.per_length_counts)

\* the password of the index a worker is at
BuildPassword(w) ==
    CASE ctl.kind = "sequential" ->
           Built(IndexToDigits(wk[w].idx, ctl.length, cfg.charset))
      [] ctl.kind = "pattern_index" ->
           getPatternPasswordByIndex(U64ToInt(wk[w].idx), ctl.segments, cfg.charset,
                                     ctl.length)
      [] ctl.kind = "shuffled_index" ->
           getPasswordByIndex(U64(ctl.indices[U64ToInt(wk[w].idx)] + ctl.prefix), cfg.charset,
                              ctl.max_length)
      [] ctl.kind = "shuffled_pattern" ->
           getPatternPasswordByGlobalIndex(ctl.indices[U64ToInt(wk[w].idx)], ctl.segments,
                                           cfg.charset, ctl.min_length, ctl.max_length,
                                           ctl.per_length_counts)

\* variant: the index moves on by two
AdvanceByTwo(w) ==
    [wk[w] EXCEPT !.pc = "guard", !.idx = U64Add(@, U64(2)), !.pwd = <<>>]

\* ++idx and back to the loop condition
Advance(w) == [wk[w] EXCEPT !.pc = "guard", !.idx = U64Add(@, U64(1)), !.pwd = <<>>]

\* the password is built; "bool skip = (filter && filter->contains(pwd))" is next
Candidate(w) ==
    TheOnly({IF ~built.ok THEN Advance(w)
             ELSE [wk[w] EXCEPT !.pc = IF FilterOn THEN "contains" ELSE "try",
                                !.pwd = built.pwd] :
               built \in {BuildPassword(w)}})

\* variant: the loop does not look at stop_requested
LoopConditionNoStop(w) == U64Gt(wk[w].end_idx, wk[w].idx) /\ ~foundFlag

\* variant: the loop does not look at foundFlag
LoopConditionNoFound(w) == U64Gt(wk[w].end_idx, wk[w].idx) /\ ~stop_requested

\* the loop condition: idx < end_idx && !foundFlag && !stop_requested
LoopCondition(w) == U64Gt(wk[w].end_idx, wk[w].idx) /\ ~foundFlag /\ ~stop_requested

WorkerGuard(w) ==
    /\ wk[w].pc = "guard"
    /\ wk' = [wk EXCEPT ![w] =
                IF ~LoopCondition(w)
                THEN [wk[w] EXCEPT !.pc = "done"]
                ELSE IF U64Mod(wk[w].idx, StopCheckInterval) = 0
                THEN [wk[w] EXCEPT !.pc = "poll"]
                ELSE Candidate(w)]
    /\ UNCHANGED <<aside, prev, cfg, stopFile, file, skipFilter, skipListFilePath, filterMutex, ctl,
                   foundFlag, foundPassword_internal, stop_requested, stdout, exitCode,
                   oracleAccepted, tested, saves, pwdWrites>>

\* variant: the worker goes on with its index when the file is there
WorkerPollIgnoresFlag(w) ==
    /\ wk[w].pc = "poll"
    /\ wk' = [wk EXCEPT ![w] = Candidate(w)]
    /\ UNCHANGED stop_requested
    /\ UNCHANGED <<aside, prev, cfg, stopFile, file, skipFilter, skipListFilePath, filterMutex, ctl,
                   foundFlag, foundPassword_internal, stdout, exitCode,
                   oracleAccepted, tested, saves, pwdWrites>>

\* "if (idx % 1000 == 0) { if (stop_flag_exists(stop_flag_path)) {...} }":
\* the sequential and the shuffled index worker store stop_requested and
\* leave; the two pattern workers first save the filter when there is one
WorkerPoll(w) ==
    /\ wk[w].pc = "poll"
    /\ IF ~StopFlagSeen
       THEN /\ wk' = [wk EXCEPT ![w] = Candidate(w)]
            /\ UNCHANGED stop_requested
       ELSE IF PatternKind /\ FilterOn
       THEN /\ wk' = [wk EXCEPT ![w].pc = "ser"]
            /\ UNCHANGED stop_requested
       ELSE /\ wk' = [wk EXCEPT ![w].pc = "done"]
            /\ stop_requested' = TRUE
    /\ UNCHANGED <<aside, prev, cfg, stopFile, file, skipFilter, skipListFilePath, filterMutex, ctl,
                   foundFlag, foundPassword_internal, stdout, exitCode,
                   oracleAccepted, tested, saves, pwdWrites>>

\* pattern_index_worker and shuffled_pattern_worker on the stop flag:
\* lock(*filterMutex); filter->serialize(skipListFilePath); then
\* stop_requested.store(true); break
WorkerSerialize(w) ==
    /\ wk[w].pc = "ser"
    /\ filterMutex = Free
    /\ \E written \in SerializeOutcomes(skipFilter) : file' = written
    /\ saves' = saves \cup {SaveEvent(w, "stop_flag")}
    /\ stop_requested' = TRUE
    /\ wk' = [wk EXCEPT ![w].pc = "done"]
    /\ UNCHANGED <<aside, prev, cfg, stopFile, skipFilter, skipListFilePath, filterMutex, ctl,
                   foundFlag, foundPassword_internal, stdout, exitCode,
                   oracleAccepted, tested, pwdWrites>>

\* filter->contains(pwd) is called without the mutex: while another worker is
\* inside insert() the bits it reads are the old ones or the new ones
ContainsResults(w) ==
    {contains(skipFilter, wk[w].pwd)} \cup
    {contains(insert(skipFilter, wk[v].pwd), wk[w].pwd) :
        v \in {u \in Threads : wk[u].pc = "ins_in"}}

WorkerContains(w) ==
    /\ wk[w].pc = "contains"
    /\ \E skip \in ContainsResults(w) :
         wk' = [wk EXCEPT ![w] = IF skip THEN Advance(w)
                                 ELSE [wk[w] EXCEPT !.pc = "try"]]
    /\ UNCHANGED <<aside, prev, cfg, stopFile, file, skipFilter, skipListFilePath, filterMutex, ctl,
                   foundFlag, foundPassword_internal, stop_requested, stdout, exitCode,
                   oracleAccepted, tested, saves, pwdWrites>>

\* variant: an accepted candidate is inserted like a rejected one
WorkerTryInsertsAccepted(w) ==
    /\ wk[w].pc = "try"
    /\ tested' = tested (+) SetToBag({wk[w].pwd})
    /\ oracleAccepted' = IF wk[w].pwd \in cfg.accepts
                         THEN oracleAccepted \cup {wk[w].pwd} ELSE oracleAccepted
    /\ wk' = [wk EXCEPT ![w] =
                IF FilterOn THEN [wk[w] EXCEPT !.pc = "ins"]
                ELSE IF wk[w].pwd \in cfg.accepts THEN [wk[w] EXCEPT !.pc = "cas"]
                ELSE Advance(w)]
    /\ UNCHANGED <<aside, prev, cfg, stopFile, file, skipFilter, skipListFilePath, filterMutex, ctl,
                   foundFlag, foundPassword_internal, stop_requested, stdout, exitCode,
                   saves, pwdWrites>>

\* tryPassword(pwd, archivePath): the oracle's answer is cfg.accepts
WorkerTry(w) ==
    /\ wk[w].pc = "try"
    /\ tested' = tested (+) SetToBag({wk[w].pwd})
    /\ oracleAccepted' = IF wk[w].pwd \in cfg.accepts
                         THEN oracleAccepted \cup {wk[w].pwd} ELSE oracleAccepted
    /\ wk' = [wk EXCEPT ![w] =
                LET counted == [wk[w] EXCEPT
                                  !.calls_after_stop = IF stop_requested THEN @ + 1 ELSE @,
                                  \* counted in the run of many candidates
                                  !.calls_after_flag =
                                      IF stopFile /\ cfg \in LongConfigs THEN @ + 1 ELSE @,
                                  !.calls_after_found = IF foundFlag THEN @ + 1 ELSE @]
                IN  IF wk[w].pwd \in cfg.accepts THEN [counted EXCEPT !.pc = "cas"]
                    ELSE IF FilterOn THEN [counted EXCEPT !.pc = "ins"]
                    ELSE [counted EXCEPT !.pc = "guard", !.idx = U64Add(@, U64(1)),
                                          !.pwd = <<>>]]
    /\ UNCHANGED <<aside, prev, cfg, stopFile, file, skipFilter, skipListFilePath, filterMutex, ctl,
                   foundFlag, foundPassword_internal, stop_requested, stdout, exitCode,
                   saves, pwdWrites>>

\* variant: the flag is stored without the comparison
WorkerCasNoCompare(w) ==
    /\ wk[w].pc = "cas"
    /\ foundFlag' = TRUE
    /\ wk' = [wk EXCEPT ![w].pc = "write"]
    /\ UNCHANGED <<aside, prev, cfg, stopFile, file, skipFilter, skipListFilePath, filterMutex, ctl,
                   foundPassword_internal, stop_requested, stdout, exitCode,
                   oracleAccepted, tested, saves, pwdWrites>>

\* foundFlag.compare_exchange_strong(expected = false, true); the loser returns
WorkerCas(w) ==
    /\ wk[w].pc = "cas"
    /\ foundFlag' = TRUE
    /\ wk' = [wk EXCEPT ![w].pc = IF foundFlag THEN "done" ELSE "write"]
    /\ UNCHANGED <<aside, prev, cfg, stopFile, file, skipFilter, skipListFilePath, filterMutex, ctl,
                   foundPassword_internal, stop_requested, stdout, exitCode,
                   oracleAccepted, tested, saves, pwdWrites>>

\* std::lock_guard<std::mutex> lk(foundMutex); the mutex is the local
\* "std::mutex foundMutex" of brute_force_worker_combined, ctl.foundMutex
\* is its holder
WorkerLockFound(w) ==
    /\ wk[w].pc = "write"
    /\ ctl.foundMutex = Free
    /\ ctl' = [ctl EXCEPT !.foundMutex = {w}]
    /\ wk' = [wk EXCEPT ![w].pc = "write_in"]
    /\ UNCHANGED <<aside, prev, cfg, stopFile, file, skipFilter, skipListFilePath, filterMutex,
                   foundFlag, foundPassword_internal, stop_requested, stdout, exitCode,
                   oracleAccepted, tested, saves, pwdWrites>>

\* variant: the lock on foundMutex lasts to the end of the loop body, and
\* the winner goes on to the insert of the else branch
WorkerWriteKeepsLock(w) ==
    /\ wk[w].pc = "write_in"
    /\ foundPassword_internal' = wk[w].pwd
    /\ pwdWrites' = pwdWrites + 1
    /\ wk' = [wk EXCEPT ![w].pc = IF FilterOn THEN "ins" ELSE "done"]
    /\ ctl' = [ctl EXCEPT !.foundMutex = IF FilterOn THEN @ ELSE Free]
    /\ UNCHANGED <<aside, prev, cfg, stopFile, file, skipFilter, skipListFilePath, filterMutex,
                   foundFlag, stop_requested, stdout, exitCode,
                   oracleAccepted, tested, saves>>

\* foundPassword_out = pwd; the lock is released at the end of the block;
\* return
WorkerWrite(w) ==
    /\ wk[w].pc = "write_in"
    /\ foundPassword_internal' = wk[w].pwd
    /\ pwdWrites' = pwdWrites + 1
    /\ wk' = [wk EXCEPT ![w].pc = "done"]
    /\ ctl' = [ctl EXCEPT !.foundMutex = Free]
    /\ UNCHANGED <<aside, prev, cfg, stopFile, file, skipFilter, skipListFilePath, filterMutex,
                   foundFlag, stop_requested, stdout, exitCode,
                   oracleAccepted, tested, saves>>

\* variant: the worker enters insert() without waiting for the mutex
WorkerInsertLockNoWait(w) ==
    /\ wk[w].pc = "ins"
    /\ filterMutex' = filterMutex \cup {w}
    /\ wk' = [wk EXCEPT ![w].pc = "ins_in"]
    /\ UNCHANGED <<aside, prev, cfg, stopFile, file, skipFilter, skipListFilePath, ctl,
                   foundFlag, foundPassword_internal, stop_requested, stdout, exitCode,
                   oracleAccepted, tested, saves, pwdWrites>>

\* std::lock_guard<std::mutex> filterLk(*filterMutex)
WorkerInsertLock(w) ==
    /\ wk[w].pc = "ins"
    /\ filterMutex = Free
    /\ filterMutex' = {w}
    /\ wk' = [wk EXCEPT ![w].pc = "ins_in"]
    /\ UNCHANGED <<aside, prev, cfg, stopFile, file, skipFilter, skipListFilePath, ctl,
                   foundFlag, foundPassword_internal, stop_requested, stdout, exitCode,
                   oracleAccepted, tested, saves, pwdWrites>>

\* filter->insert(pwd); the lock is released at the end of the block
WorkerInsert(w) ==
    /\ wk[w].pc = "ins_in"
    /\ skipFilter' = insert(skipFilter, wk[w].pwd)
    /\ filterMutex' = Free
    /\ wk' = [wk EXCEPT ![w] = Advance(w)]
    /\ UNCHANGED <<aside, prev, cfg, stopFile, file, skipListFilePath, ctl,
                   foundFlag, foundPassword_internal, stop_requested, stdout, exitCode,
                   oracleAccepted, tested, saves, pwdWrites>>

(***************************************************************************)
(* The environment: the front end asks for a stop by creating the file     *)
(* skipListFilePath + ".stop"                                              *)
(***************************************************************************)
\* In the run over many candidates the file is created before the run
\* starts or when the worker has just looked for it at index 0
CreateStopFile ==
    /\ cfg.skip_file
    /\ ~stopFile
    /\ ctl.pc # "exited"
    /\ cfg \in LongConfigs =>
          \/ ctl.pc = "enter"
          \/ wk[0].pc = "contains" /\ wk[0].idx = U64(0)
    /\ stopFile' = TRUE
    /\ UNCHANGED <<aside, prev, cfg, file, skipFilter, skipListFilePath, filterMutex, ctl, wk,
                   foundFlag, foundPassword_internal, stop_requested, stdout, exitCode,
                   oracleAccepted, tested, saves, pwdWrites>>

ControllerNext ==
    \/ Enter
    \/ RandSetup
    \/ LoopStep
    \/ SpawnCheck
    \/ SpawnCreate
    \/ JoinAndCheckpoint
    \/ Finalize
    \/ Report

WorkerNext(w) ==
    \/ WorkerGuard(w)
    \/ WorkerPoll(w)
    \/ WorkerSerialize(w)
    \/ WorkerContains(w)
    \/ WorkerTry(w)
    \/ WorkerCas(w)
    \/ WorkerLockFound(w)
    \/ WorkerWrite(w)
    \/ WorkerInsertLock(w)
    \/ WorkerInsert(w)

Next ==
    \/ ControllerNext
    \/ \E w \in Threads : WorkerNext(w)
    \/ CreateStopFile

Spec == Init /\ [][Next]_vars

LongSpec == LongInit /\ [][Next]_vars

\* every thread that can take a step eventually takes one; nobody has to
\* create the stop file
FairSpec ==
    /\ Spec
    /\ WF_vars(ControllerNext)
    /\ \A w \in Threads : WF_vars(WorkerNext(w))

(***************************************************************************)
(* Properties                                                              *)
(***************************************************************************)
Exited == ctl.pc = "exited"

\* p is a string over the charset of c whose length is in the range of c
InRange(c, p) ==
    /\ Len(p) >= c.min_length
    /\ Len(p) <= c.max_length
    /\ \A i \in 1..Len(p) : p[i] \in Range(c.charset)

\* C1 as stated: at the end of a run, FOUND:w is on standard output exactly
\* for the passwords w the oracle accepted, and there is at most one line
C1_FoundIffAccepted ==
    Exited => /\ Range(stdout) = oracleAccepted
              /\ Len(stdout) <= 1

\* C1: a FOUND: line carries a password the oracle accepted, there is at most
\* one line, and at the end of a run there is a line exactly when the oracle
\* accepted something; when two workers both got an accept, only the
\* password of the compare-and-set winner is reported
C1_FoundOnlyAccepted ==
    /\ Range(stdout) \subseteq oracleAccepted
    /\ Len(stdout) <= 1
    /\ Exited => (stdout # <<>> <=> oracleAccepted # {})
    /\ Exited /\ stdout # <<>> => stdout[1] = foundPassword_internal

C1_TwoAcceptedOneReported ==
    Exited /\ Cardinality(oracleAccepted) = 2 /\ Len(stdout) = 1

\* C2: once main() has returned, the exit status is 0 exactly when a FOUND:
\* line was emitted and 1 otherwise; a run ended by the stop flag in which
\* the oracle accepted nothing exits with 1
C2_ExitStatus ==
    /\ Exited => /\ exitCode \in {0, 1}
                 /\ exitCode = 0 <=> stdout # <<>>
    /\ Exited /\ stop_requested /\ oracleAccepted = {} => exitCode = 1

C2_StoppedExitsOne ==
    Exited /\ stop_requested /\ oracleAccepted = {} /\ exitCode = 1

\* the precondition of C3: no pattern, no filter (so no stop flag path
\* either), the oracle accepts a string of the range, and in random mode the
\* range is within the RAM ceiling
C3_Pre ==
    /\ cfg.pattern = NoPattern
    /\ ~cfg.skip_file
    /\ \E p \in cfg.accepts : InRange(cfg, p)
    /\ cfg.mode = "RANDOM_LCG" =>
         LET n == EstimateLoop(cfg.min_length, cfg.max_length, Len(cfg.charset), U64(0))
         IN  n.ok /\ ~U64Gt(n.val, U64(MAX_REASONABLE_INDICES_RAM))

C3_FoundAtEnd ==
    Exited /\ foundFlag /\ ctl.ret \in cfg.accepts /\ exitCode = 0

\* C3 as stated: under C3_Pre every fair run ends with found set and an
\* accepted password returned
C3_AlwaysFinds == C3_Pre => <>C3_FoundAtEnd

\* C3: the same, when in addition the number of strings of the accepted
\* password's length fits 64 bits (a length whose count overflows is skipped)
C3_FindsWhenCountFits ==
    (/\ C3_Pre
     /\ \E p \in cfg.accepts :
          InRange(cfg, p) /\ calculate_combinations(Len(cfg.charset), Len(p)).ok)
    => <>C3_FoundAtEnd

C3_RandomRunFound ==
    C3_Pre /\ C3_FoundAtEnd /\ cfg.mode = "RANDOM_LCG" /\ cfg.numThreads > 1

\* str matches segments[s..] from position pos on ("?" one character, "*" any
\* number of characters, anything else itself)
RECURSIVE MatchFrom(_, _, _, _)
MatchFrom(segments, s, str, pos) ==
    IF s > Len(segments) THEN pos = Len(str) + 1
    ELSE IF segments[s] = QMark
    THEN pos <= Len(str) /\ MatchFrom(segments, s + 1, str, pos + 1)
    ELSE IF segments[s] = Star
    THEN \E k \in pos..(Len(str) + 1) : MatchFrom(segments, s + 1, str, k)
    ELSE /\ pos + Len(segments[s]) - 1 <= Len(str)
         /\ SubSeq(str, pos, pos + Len(segments[s]) - 1) = segments[s]
         /\ MatchFrom(segments, s + 1, str, pos + Len(segments[s]))

\* p is in the search space of c: a string of the range that matches the
\* pattern; a pattern with two or more stars has no candidates
\* (calculate_pattern_combinations returns nullopt for every length)
InSearchSpace(c, p) ==
    /\ InRange(c, p)
    /\ c.pattern # NoPattern =>
          /\ calculate_pattern_info(parse_pattern(c.pattern)).num_stars <= 1
          /\ MatchFrom(parse_pattern(c.pattern), 1, p, 1)

AcceptedInSpace == {p \in cfg.accepts : InSearchSpace(cfg, p)}

\* the precondition of C4: the run has a newly constructed filter and the
\* oracle accepts a password of the search space
C4_Pre == cfg.skip_file /\ FilterOn /\ AcceptedInSpace # {}

\* C4 as stated: under C4_Pre every fair run without a stop request ends
\* with found set to an accepted password
C4_AlwaysFinds ==
    C4_Pre => <>(stop_requested \/ (Exited /\ foundFlag /\ ctl.ret \in cfg.accepts))

\* C4: under C4_Pre every fair run without a stop request ends, and it ends
\* with found set to an accepted password unless the filter answered
\* contains() = true for every accepted password of the space, none of which
\* was ever inserted or tested (false positives against the rejected
\* candidates inserted during the run)
C4_FindsUnlessFalsePositive ==
    C4_Pre =>
      <>(\/ stop_requested
         \/ /\ Exited
            /\ \/ foundFlag /\ ctl.ret \in cfg.accepts /\ exitCode = 0
               \/ /\ ~foundFlag
                  /\ exitCode = 1
                  /\ \A p \in AcceptedInSpace :
                       ~BagIn(p, tested) /\ contains(skipFilter, p))

C4_FalsePositiveSkipped ==
    /\ C4_Pre
    /\ Exited
    /\ ~stop_requested
    /\ ~foundFlag
    /\ \E p \in AcceptedInSpace : ~BagIn(p, tested) /\ contains(skipFilter, p)

\* the strings of the range of c, for the lengths whose count fits 64 bits
AllStrings(c) ==
    UNION {[1..L -> Range(c.charset)] :
             L \in {l \in c.min_length..c.max_length :
                      calculate_combinations(Len(c.charset), l).ok}}

C5_Pre ==
    /\ cfg.mode \in {"ASCENDING", "DESCENDING"}
    /\ cfg.pattern = NoPattern
    /\ ~cfg.skip_file
    /\ cfg.accepts = {}

\* C5: in ascending and descending mode with no pattern, no filter and an
\* oracle that rejects everything, for every worker count no string is
\* submitted twice, the lengths are done one after the other in the
\* direction of the mode (every string of a length before the current one
\* has been submitted, none of a length after it), and at the end the
\* submitted strings are exactly the strings of the range whose length has a
\* count that fits 64 bits
C5_SameSetEveryWorkerCount ==
    C5_Pre /\ ctl.pc # "enter" =>
      /\ \A s \in BagToSet(tested) : CopiesIn(s, tested) = 1
      /\ BagToSet(tested) \subseteq AllStrings(cfg)
      /\ \A s \in AllStrings(cfg) :
           IF cfg.mode = "ASCENDING"
           THEN /\ Len(s) < ctl.length => BagIn(s, tested)
                /\ Len(s) > ctl.length => ~BagIn(s, tested)
           ELSE /\ Len(s) > ctl.length => BagIn(s, tested)
                /\ Len(s) < ctl.length => ~BagIn(s, tested)
      /\ Exited => tested = SetToBag(AllStrings(cfg))

C5_TwoWorkersThreeStrings ==
    /\ C5_Pre
    /\ Exited
    /\ cfg.numThreads = 2
    /\ Len(cfg.charset) = 3
    /\ BagCardinality(tested) = 3

C7_Latched ==
    [][/\ foundFlag => foundFlag'
       /\ stop_requested => stop_requested'
       /\ pwdWrites' <= 1
       /\ pwdWrites' # pwdWrites =>
            /\ foundFlag
            /\ foundPassword_internal' \in oracleAccepted
            /\ \E w \in Threads : wk[w].pc = "write_in" /\ wk'[w].pc = "done"]_vars

C7_LoserDidNotWrite ==
    Exited /\ Cardinality(oracleAccepted) = 2 /\ pwdWrites = 1

\* C8: once foundFlag is set a worker completes at most one more oracle
\* call, no worker of a further length is started (the first chunk of a
\* length is never started after it, and a worker started after it makes no
\* oracle call), and the controller is past its dispatches only when every
\* worker has terminated
C8_PromptExitOnFound ==
    /\ \A w \in Threads :
         /\ wk[w].calls_after_found <= 1
         /\ wk[w].started_found => wk[w].calls_after_found = 0 /\ w # 0
    /\ foundFlag /\ ctl.pc = "spawn" => ctl.t > 0
    /\ ctl.pc \in {"final", "report", "exited"} => AllJoined

C8_OneCallAfterFound ==
    foundFlag /\ \E w \in Threads : wk[w].calls_after_found = 1

FinalSaves == {e \in saves : e.at = "final"}

\* C9: once the controller has returned, it has made the final save exactly
\* when a filter is configured and valid and foundFlag or stop_requested is
\* set; the save is made by the controller with every worker joined; a run
\* with a stop request has made it, a run that exhausted the space has not
C9_FinalSaveCondition ==
    ctl.pc \in {"report", "exited"} =>
      /\ FinalSaves # {} <=> FilterOn /\ isValid(skipFilter) /\ (foundFlag \/ stop_requested)
      /\ \A e \in FinalSaves : e.by = Controller /\ e.running = {}
      /\ stop_requested => FinalSaves # {} /\ isValid(skipFilter)
      /\ ~foundFlag /\ ~stop_requested => FinalSaves = {}

C9_StoppedAndSaved ==
    Exited /\ stop_requested /\ ~foundFlag /\ FinalSaves # {}

\* C10 as stated: every serialization of the filter is made by the
\* controller, at a checkpoint after a join or at termination
C10_OnlyControllerSerializes ==
    \A e \in saves : e.by = Controller /\ e.at \in {"checkpoint", "final"}


(***************************************************************************)
(* The run variables while a single unit is exercised on its own           *)
(***************************************************************************)
RunParked ==
    /\ cfg = <<>>
    /\ stopFile = FALSE
    /\ file = AbsentFile
    /\ skipFilter = BloomFilterDefault
    /\ skipListFilePath = FALSE
    /\ filterMutex = Free
    /\ ctl = [pc |-> "none"]
    /\ wk = [w \in Threads |-> IdleWorker]
    /\ foundFlag = FALSE
    /\ foundPassword_internal = <<>>
    /\ stop_requested = FALSE
    /\ stdout = <<>>
    /\ exitCode = -1
    /\ oracleAccepted = {}
    /\ tested = EmptyBag
    /\ saves = {}
    /\ pwdWrites = 0
    /\ prev = NoRunBefore

run == <<cfg, stopFile, file, skipFilter, skipListFilePath, filterMutex, ctl, wk,
         foundFlag, foundPassword_internal, stop_requested, stdout, exitCode,
         oracleAccepted, tested, saves, pwdWrites, prev>>

(***************************************************************************)
(* bloom_filter.cpp on its own: a filter is constructed, strings are       *)
(* inserted, it is serialized to a file, the file is damaged or not, and   *)
(* a filter is deserialized from it                                        *)
(***************************************************************************)
\* the largest estimated_items, the most insert() calls, and the most
\* changes made to a written file
MaxItems == 2
MaxInserts == 2
MaxEdits == 1

\* the strings inserted and looked up
BloomItems == {<<"a">>, <<"b">>, <<"a", "b">>}
\* the values a byte of the file is overwritten with
EditBytes == {0, 1, 21, 127}
\* the bytes of a file that deserialize() looks at: all but the stored
\* m_estimated_items and m_fp_rate
EditPositions(bytes) == (1..Len(bytes)) \ (19..HeaderSize)

\* calls on a filter whose m_bits is shorter than m_num_bits index the vector
\* out of range
BitsInRange(f) == f.num_bits <= f.bits_size

BloomInit ==
    /\ bf = [pc |-> "start", filter |-> BloomFilterDefault, inserted |-> {},
             disk |-> NoFile, saved |-> BloomFilterDefault, edits |-> 0,
             before |-> BloomFilterDefault, ret |-> "none"]
    /\ probe = Unused
    /\ proc = Unused
    /\ RunParked

BfConstruct(estimated_items, false_positive_rate) ==
    /\ bf.pc = "start"
    /\ bf' = [bf EXCEPT !.pc = "built",
                        !.filter = BloomFilterOf(estimated_items, false_positive_rate)]
    /\ UNCHANGED <<run, probe, proc>>

BfInsert(item) ==
    /\ bf.pc = "built"
    /\ Cardinality(bf.inserted) < MaxInserts
    /\ BitsInRange(bf.filter)
    /\ bf' = [bf EXCEPT !.filter = insert(@, item), !.inserted = @ \cup {item}]
    /\ UNCHANGED <<run, probe, proc>>

BfSerialize ==
    /\ bf.pc = "built"
    /\ BitsInRange(bf.filter)
    /\ bf' = [bf EXCEPT !.pc = "stored",
                        !.saved = bf.filter,
                        !.ret = IF isValid(bf.filter) THEN "true" ELSE "false",
                        !.disk = IF isValid(bf.filter)
                                 THEN [exists |-> TRUE, bytes |-> serialize(bf.filter)]
                                 ELSE @]
    /\ UNCHANGED <<run, probe, proc>>

BfEditByte(pos, byte) ==
    /\ bf.pc = "stored"
    /\ bf.disk.exists
    /\ bf.edits < MaxEdits
    /\ pos \in EditPositions(bf.disk.bytes)
    /\ bf.disk.bytes[pos] # byte
    /\ bf' = [bf EXCEPT !.disk.bytes[pos] = byte, !.edits = @ + 1]
    /\ UNCHANGED <<run, probe, proc>>

BfTruncate(length) ==
    /\ bf.pc = "stored"
    /\ bf.disk.exists
    /\ bf.edits < MaxEdits
    /\ length < Len(bf.disk.bytes)
    /\ bf' = [bf EXCEPT !.disk.bytes = SubSeq(@, 1, length), !.edits = @ + 1]
    /\ UNCHANGED <<run, probe, proc>>

BfAppend(byte) ==
    /\ bf.pc = "stored"
    /\ bf.disk.exists
    /\ bf.edits < MaxEdits
    /\ bf' = [bf EXCEPT !.disk.bytes = Append(@, byte), !.edits = @ + 1]
    /\ UNCHANGED <<run, probe, proc>>

\* deserialize() is called on a default-constructed filter, as main() does,
\* or on the filter that was serialized
BfDeserialize(fresh, alloc_ok) ==
    /\ bf.pc \in {"built", "stored"}
    /\ \E target \in {IF fresh THEN BloomFilterDefault ELSE bf.filter} :
         \E loaded \in {deserialize(target, bf.disk, alloc_ok)} :
           bf' = [bf EXCEPT !.pc = "loaded", !.before = target,
                            !.filter = loaded.filter, !.ret = loaded.ret,
                            !.inserted = {}]
    /\ UNCHANGED <<run, probe, proc>>

BloomNext ==
    \/ \E estimated_items \in 0..MaxItems, false_positive_rate \in DOMAIN FpRates :
         BfConstruct(estimated_items, false_positive_rate)
    \/ \E item \in BloomItems : BfInsert(item)
    \/ BfSerialize
    \/ \E pos \in 1..(HeaderSize + 16), byte \in EditBytes : BfEditByte(pos, byte)
    \/ \E length \in 0..(HeaderSize + 16) : BfTruncate(length)
    \/ \E byte \in EditBytes : BfAppend(byte)
    \/ \E fresh \in BOOLEAN, alloc_ok \in BOOLEAN : BfDeserialize(fresh, alloc_ok)

BloomSpec == BloomInit /\ [][BloomNext]_vars

\* the filter is one that insert() and contains() are being called on
BfInUse == bf.pc \in {"built", "stored"} /\ isValid(bf.filter)

\* C11: on a valid filter every string that was inserted is contained, also
\* after the inserts that followed it; so a string that is not contained was
\* never inserted
C11_NoFalseNegative ==
    BfInUse =>
      /\ \A item \in bf.inserted : contains(bf.filter, item)
      /\ \A item \in BloomItems : ~contains(bf.filter, item) => item \notin bf.inserted

\* a filter built by the constructor and insert() was serialized, the file
\* was left as written, and a default-constructed filter deserialized it
BfRoundTrip ==
    /\ bf.pc = "loaded"
    /\ bf.disk.exists
    /\ bf.edits = 0
    /\ isValid(bf.saved)
    /\ bf.before = BloomFilterDefault

\* C12: deserializing what serialize() wrote into a fresh filter succeeds and
\* gives back m, k, n, p and the bit vector; contains() answers the same on
\* the two filters
C12_RoundTrip ==
    BfRoundTrip =>
      /\ bf.ret = "true"
      /\ bf.filter.num_bits = bf.saved.num_bits
      /\ bf.filter.num_hashes = bf.saved.num_hashes
      /\ bf.filter.estimated_items = bf.saved.estimated_items
      /\ bf.filter.fp_rate = bf.saved.fp_rate
      /\ bf.filter.bits_size = bf.saved.bits_size
      /\ bf.filter.bits = bf.saved.bits
      /\ \A item \in BloomItems :
            contains(bf.filter, item) <=> contains(bf.saved, item)

C12_RoundTripOfTwoItems ==
    /\ BfRoundTrip
    /\ bf.saved.num_bits > 16
    /\ bf.saved.num_bits % 8 # 0
    /\ Cardinality(bf.saved.bits) > 8
    /\ bf.filter = bf.saved

\* C13: a valid filter, built by the constructor or taken from a file that
\* deserialize() accepted, has m >= 8 and 1 <= k <= 20
C13_ValidFilterBounds ==
    /\ bf.pc \in {"built", "stored"} \/ (bf.pc = "loaded" /\ bf.ret = "true")
    /\ isValid(bf.filter)
    => /\ bf.filter.num_bits >= 8
       /\ bf.filter.num_hashes >= 1
       /\ bf.filter.num_hashes <= 20

\* C14: deserialize() of a file with a wrong magic or version, a zero m or k,
\* missing bytes or trailing bytes returns false and leaves the filter
\* invalid, whatever the filter was before
C14_RejectedLeavesInvalid ==
    LET b == bf.disk.bytes
        m == ReadLE(b, 7, 2) + ReadLE(b, 9, 2) * Limb
        damaged ==
          \/ Len(b) < HeaderSize
          \/ SubSeq(b, 1, 4) # BLOOM_FILTER_MAGIC
          \/ SubSeq(b, 5, 6) # BLOOM_FILTER_VERSION
          \/ SubSeq(b, 7, 14) = <<0, 0, 0, 0, 0, 0, 0, 0>>
          \/ SubSeq(b, 15, 18) = <<0, 0, 0, 0>>
          \/ /\ SubSeq(b, 11, 14) = <<0, 0, 0, 0>>
             /\ b[10] < 64
             /\ Len(b) # HeaderSize + (m + 7) \div 8
    IN  bf.pc = "loaded" /\ bf.disk.exists /\ damaged
        => bf.ret = "false" /\ ~isValid(bf.filter)

C11_TwoInsertedOneAbsent ==
    /\ BfInUse
    /\ Cardinality(bf.inserted) = 2
    /\ bf.filter.num_hashes > 1
    /\ \E item \in BloomItems : ~contains(bf.filter, item)


(***************************************************************************)
(* The index-to-password functions on their own: arguments are chosen and  *)
(* the function is called for up to MaxCalls indices                       *)
(***************************************************************************)
MaxCalls == 2

ProbeCharsets == {<<"a">>, <<"a", "b">>, <<"a", "b", "c">>, Letters}

\* C + C^2 + ... + C^L for a charset of size C, below 2^31
SumOfPowers(C, L) == SumFrom([l \in 1..L |-> C^l], 1)

\* the first index of length 16 over sixteen letters: 16 + 16^2 + ... + 16^15
FirstOfOverflowLen == <<4368, 4369, 4369, 4369>>

\* the indices getPasswordByIndex is called with: all of them, and one more,
\* where they are few; over the sixteen letters the ends of the first block,
\* of the last block whose size fits 64 bits, and of the 64-bit range
ProbeIndices(charset, max_possible_length) ==
    IF charset = Letters
    THEN {U64(0), U64(15), U64(16), U64Sub(FirstOfOverflowLen, U64(1)),
          FirstOfOverflowLen, U64Max}
    ELSE {U64(i) : i \in 0..SumOfPowers(Len(charset), max_possible_length)}

ProbePatterns ==
    {<<"a", "?">>, <<"b", "*">>, <<"?", "*", "?">>, <<"*">>, <<"?", "a">>,
     <<"a", "b">>, <<"\\", "?">>, <<"\\", "*">>, <<"a", "\\", "*">>,
     <<"\\", "\\">>, <<"\\", "a", "?">>}

ProbeInit ==
    /\ probe = [pc |-> "start", charset |-> <<>>, length |-> 0, pattern |-> <<>>,
                segments |-> <<>>, count |-> Nothing, min_len |-> 0,
                per_length_counts |-> <<>>, charset_size |-> 0,
                plan |-> [outcome |-> "none", indices_size |-> 0, workers |-> 0],
                calls |-> <<>>]
    /\ bf = Unused
    /\ proc = Unused
    /\ RunParked

IndexArgs(charset, max_possible_length) ==
    /\ probe.pc = "start"
    /\ probe' = [probe EXCEPT !.pc = "index", !.charset = charset,
                              !.length = max_possible_length]
    /\ UNCHANGED <<run, bf, proc>>

IndexCall(index) ==
    /\ probe.pc = "index"
    /\ Len(probe.calls) < MaxCalls
    /\ index \in ProbeIndices(probe.charset, probe.length)
    /\ probe' = [probe EXCEPT !.calls =
                    Append(@, [index |-> index,
                               out |-> getPasswordByIndex(index, probe.charset,
                                                          probe.length)])]
    /\ UNCHANGED <<run, bf, proc>>

\* the pattern is parsed and counted for the length, as the controller does
PatternArgs(pattern, charset, total_length) ==
    /\ probe.pc = "start"
    /\ \E segments \in {parse_pattern(pattern)} :
         probe' = [probe EXCEPT !.pc = "pattern", !.charset = charset,
                                !.length = total_length, !.pattern = pattern,
                                !.segments = segments,
                                !.count = calculate_pattern_combinations(
                                              segments, Len(charset), total_length)]
    /\ UNCHANGED <<run, bf, proc>>

PatternCall(index) ==
    /\ probe.pc = "pattern"
    /\ Len(probe.calls) < MaxCalls
    /\ probe.count.ok
    /\ index <= U64ToInt(probe.count.val)
    /\ probe' = [probe EXCEPT !.calls =
                    Append(@, [index |-> U64(index),
                               out |-> getPatternPasswordByIndex(
                                           index, probe.segments, probe.charset,
                                           probe.length)])]
    /\ UNCHANGED <<run, bf, proc>>

\* random pattern mode up to the shuffle: the pattern is parsed, a pattern
\* with more than one "*" is not run in random mode, and per_length_counts
\* is filled by the loop over L
GlobalArgs(pattern, charset, min_len, max_len) ==
    /\ probe.pc = "start"
    /\ min_len <= max_len
    /\ \E segments \in {parse_pattern(pattern)} :
       \E pat \in {PatternCountsLoop(min_len, max_len, segments, Len(charset),
                                     <<>>, U64(0))} :
         /\ calculate_pattern_info(segments).num_stars <= 1
         /\ pat.ok
         /\ probe' = [probe EXCEPT !.pc = "global", !.charset = charset,
                                   !.min_len = min_len, !.length = max_len,
                                   !.pattern = pattern, !.segments = segments,
                                   !.per_length_counts = pat.counts,
                                   !.count = Some(pat.val)]
    /\ UNCHANGED <<run, bf, proc>>

GlobalCall(global_pattern_index) ==
    /\ probe.pc = "global"
    /\ Len(probe.calls) < MaxCalls
    /\ global_pattern_index <= U64ToInt(probe.count.val)
    /\ probe' = [probe EXCEPT !.calls =
                    Append(@, [index |-> U64(global_pattern_index),
                               out |-> getPatternPasswordByGlobalIndex(
                                           global_pattern_index, probe.segments,
                                           probe.charset, probe.min_len, probe.length,
                                           probe.per_length_counts)])]
    /\ UNCHANGED <<run, bf, proc>>

\* the patterns the analyzer is called with for a count alone: those with
\* candidates, some with two "*", and sixteen "?"
CountPatterns ==
    ProbePatterns \cup {<<"*", "*">>, <<"a", "*", "*">>, <<"?", "*", "?", "*">>,
                        Repeat("?", 16)}

\* calculate_pattern_combinations(segments, charset_size, total_length)
CountCall(pattern, charset_size, total_length) ==
    /\ probe.pc = "start"
    /\ \E segments \in {parse_pattern(pattern)} :
         probe' = [probe EXCEPT !.pc = "count", !.charset_size = charset_size,
                                !.length = total_length, !.pattern = pattern,
                                !.segments = segments,
                                !.count = calculate_pattern_combinations(
                                              segments, charset_size, total_length)]
    /\ UNCHANGED <<run, bf, proc>>

\* the length ranges of the calls of the random set-up: around 2^29
\* candidates over two characters with a pattern and over sixteen without,
\* and beyond 64 bits
SetupRanges ==
    {<<1, 2>>, <<6, 7>>, <<7, 7>>, <<7, 8>>, <<8, 8>>, <<15, 16>>, <<16, 16>>,
     <<28, 29>>, <<29, 29>>, <<30, 30>>, <<28, 30>>}

\* random mode from the entry of the controller to the spawn loop, with no
\* stop flag file: the lengths are adjusted to the pattern, the candidates
\* are counted, and the vector is built and the threads are created unless
\* the count failed, is zero or is above MAX_REASONABLE_INDICES_RAM
SetupCall(charset_size, min_length, max_length, pattern, numThreads) ==
    /\ probe.pc = "start"
    \* without a pattern the lengths called with end at sixteen
    /\ pattern = NoPattern => max_length <= 16
    /\ \E segments \in {parse_pattern(pattern)} :
       \E lengths \in {IF pattern = NoPattern
                        THEN [min_length |-> min_length, max_length |-> max_length]
                        ELSE CoercedLengths(min_length, max_length,
                                            calculate_pattern_info(segments))} :
       \E plan \in {RandomPlan(charset_size, lengths.min_length, lengths.max_length,
                                segments, pattern # NoPattern)} :
         LET total == IF plan.outcome = "shuffle" THEN U64ToInt(plan.total) ELSE 0
             itemsPerThread == U64ToInt(ItemsPerThread(U64(total), numThreads))
             chunk(t) == [start |-> t * itemsPerThread,
                          end |-> IF t * itemsPerThread + itemsPerThread < total
                                  THEN t * itemsPerThread + itemsPerThread ELSE total]
             created == {t \in 0..(numThreads - 1) :
                           \A u \in 0..t : chunk(u).start < chunk(u).end}
         IN  /\ calculate_pattern_info(segments).num_stars <= 1
             /\ probe' = [probe EXCEPT !.pc = "setup", !.charset_size = charset_size,
                                       !.min_len = min_length, !.length = max_length,
                                       !.pattern = pattern, !.segments = segments,
                                       !.plan = [outcome |-> plan.outcome,
                                                 indices_size |-> total,
                                                 workers |-> Cardinality(created)]]
    /\ UNCHANGED <<run, bf, proc>>

ProbeNext ==
    \/ \E charset \in ProbeCharsets :
         \E max_possible_length \in
              IF charset = Letters THEN {1, OverflowLen} ELSE 1..(MaxLen + 1) :
           IndexArgs(charset, max_possible_length)
    \/ \E index \in ProbeIndices(probe.charset, probe.length) : IndexCall(index)
    \/ \E pattern \in ProbePatterns, charset \in ProbeCharsets \ {Letters},
          total_length \in 0..(MaxLen + 2) :
         PatternArgs(pattern, charset, total_length)
    \/ \E index \in 0..(3^(MaxLen + 2)) : PatternCall(index)
    \/ \E pattern \in ProbePatterns, charset \in {<<"a">>, <<"a", "b">>},
          min_len \in 1..(MaxLen + 1), max_len \in 1..(MaxLen + 1) :
         GlobalArgs(pattern, charset, min_len, max_len)
    \/ \E global_pattern_index \in 0..(2^(MaxLen + 2)) : GlobalCall(global_pattern_index)
    \/ \E pattern \in CountPatterns, charset_size \in {1, 2, 3, 16},
          total_length \in 0..(MaxLen + 2) \cup 15..17 :
         CountCall(pattern, charset_size, total_length)
    \/ \E charset_size \in {2, 16}, r \in SetupRanges,
          pattern \in {NoPattern, <<"*">>, <<"b", "*">>, <<"a", "?">>},
          numThreads \in 1..MaxThreads :
         SetupCall(charset_size, r[1], r[2], pattern, numThreads)

ProbeSpec == ProbeInit /\ [][ProbeNext]_vars

\* the size of the last length block fits 64 bits
PowersFit == PowerLoop(U64(1), Len(probe.charset), 0, probe.length).ok

\* the index is below C + ... + C^Lmax, a sum that is below 2^30 here
BelowTotal(index) ==
    /\ U64Fits(index)
    /\ U64ToInt(index) < SumOfPowers(Len(probe.charset), probe.length)

\* C16: when C^Lmax fits 64 bits, getPasswordByIndex succeeds for every index
\* below C + ... + C^Lmax; the string of index i has the length L of the block
\* i falls in, its character at position L-1-j is charset[(r / C^j) mod C] for
\* r the place of i within the block; different indices give different
\* strings and every string of length 1..Lmax is reached.  When C^Lmax does
\* not fit (sixteen letters, length sixteen) the call fails from the first
\* index of the length on whose block size does not fit
C16_BijectionWhenPowersFit ==
    LET C == Len(probe.charset)
        Lmax == probe.length
        blockOf(i) == CHOOSE L \in 1..Lmax :
                        SumOfPowers(C, L - 1) <= i /\ i < SumOfPowers(C, L)
        expected(i) ==
            [pos \in 1..blockOf(i) |->
               probe.charset[(((i - SumOfPowers(C, blockOf(i) - 1))
                                 \div C^(blockOf(i) - pos)) % C) + 1]]
    IN  probe.pc = "index" =>
          IF PowersFit
          THEN /\ \A n \in DOMAIN probe.calls :
                    IF BelowTotal(probe.calls[n].index)
                    THEN /\ probe.calls[n].out.ok
                         /\ probe.calls[n].out.pwd =
                                expected(U64ToInt(probe.calls[n].index))
                    ELSE ~probe.calls[n].out.ok
               /\ \A n1, n2 \in DOMAIN probe.calls :
                    /\ BelowTotal(probe.calls[n1].index)
                    /\ BelowTotal(probe.calls[n2].index)
                    /\ probe.calls[n1].index # probe.calls[n2].index
                    => probe.calls[n1].out.pwd # probe.calls[n2].out.pwd
               /\ probe.calls = <<>> =>
                  \A str \in UNION {[1..L -> Range(probe.charset)] : L \in 1..Lmax} :
                    \E i \in 0..(SumOfPowers(C, Lmax) - 1) :
                      getPasswordByIndex(U64(i), probe.charset, Lmax) = Built(str)
          ELSE \A n \in DOMAIN probe.calls :
                 probe.calls[n].out.ok
                 <=> U64Gt(FirstOfOverflowLen, probe.calls[n].index)

C16_TwoLengthsReached ==
    /\ probe.pc = "index"
    /\ Len(probe.charset) = 3
    /\ Len(probe.calls) = 2
    /\ probe.calls[1].out.ok /\ Len(probe.calls[1].out.pwd) = 2
    /\ probe.calls[2].out.ok /\ Len(probe.calls[2].out.pwd) = 3
    /\ probe.calls[2].out.pwd[3] # "a"

\* C16 as stated: getPasswordByIndex succeeds for every charset, every Lmax
\* and every index below C + ... + C^Lmax (over sixteen letters and length
\* sixteen every 64-bit index is below it), and different indices give
\* different strings
C16_SucceedsBelowTotal ==
    probe.pc = "index" =>
      /\ \A n \in DOMAIN probe.calls :
           (PowersFit => BelowTotal(probe.calls[n].index))
           => probe.calls[n].out.ok
      /\ \A n1, n2 \in DOMAIN probe.calls :
           /\ probe.calls[n1].out.ok
           /\ probe.calls[n2].out.ok
           /\ probe.calls[n1].index # probe.calls[n2].index
           => probe.calls[n1].out.pwd # probe.calls[n2].out.pwd

\* str from position pos on matches the segments from s on: a literal
\* segment verbatim, "?" one character of charset, "*" a run of them
RECURSIVE MatchesOver(_, _, _, _, _)
MatchesOver(segments, s, str, pos, charset) ==
    IF s > Len(segments) THEN pos = Len(str) + 1
    ELSE IF segments[s] = QMark
    THEN /\ pos <= Len(str)
         /\ str[pos] \in Range(charset)
         /\ MatchesOver(segments, s + 1, str, pos + 1, charset)
    ELSE IF segments[s] = Star
    THEN \E k \in pos..(Len(str) + 1) :
           /\ \A q \in pos..(k - 1) : str[q] \in Range(charset)
           /\ MatchesOver(segments, s + 1, str, k, charset)
    ELSE /\ pos + Len(segments[s]) - 1 <= Len(str)
         /\ SubSeq(str, pos, pos + Len(segments[s]) - 1) = segments[s]
         /\ MatchesOver(segments, s + 1, str, pos + Len(segments[s]), charset)

\* the call was made with an index below the analyzer's count
BelowCount(call) == U64ToInt(call.index) < U64ToInt(probe.count.val)

\* C17: for segments with at most one "*", a length L and an index below
\* calculate_pattern_combinations for L, getPatternPasswordByIndex succeeds,
\* the string has length L and matches the segments, and different indices
\* give different strings
C17_PatternCallsMatch ==
    probe.pc = "pattern" /\ calculate_pattern_info(probe.segments).num_stars <= 1 =>
      /\ \A n \in DOMAIN probe.calls :
           BelowCount(probe.calls[n]) =>
             /\ probe.calls[n].out.ok
             /\ Len(probe.calls[n].out.pwd) = probe.length
             /\ MatchesOver(probe.segments, 1, probe.calls[n].out.pwd, 1,
                            probe.charset)
      /\ \A n1, n2 \in DOMAIN probe.calls :
           /\ BelowCount(probe.calls[n1])
           /\ BelowCount(probe.calls[n2])
           /\ probe.calls[n1].index # probe.calls[n2].index
           => probe.calls[n1].out.pwd # probe.calls[n2].out.pwd

C17_TwoCandidatesAroundStar ==
    /\ probe.pc = "pattern"
    /\ probe.pattern = <<"?", "*", "?">>
    /\ probe.length = 4
    /\ Len(probe.calls) = 2
    /\ BelowCount(probe.calls[1]) /\ BelowCount(probe.calls[2])
    /\ probe.calls[1].out.pwd[1] # probe.calls[2].out.pwd[1]
    /\ probe.calls[1].out.pwd[4] # probe.calls[2].out.pwd[4]

\* the tokens of a pattern string as its syntax defines them: "\c" is the
\* literal c, "?" is any one character, "*" is any run, c is the literal c
RECURSIVE Tokens(_, _)
Tokens(pattern, i) ==
    IF i > Len(pattern) THEN <<>>
    ELSE IF pattern[i] = "\\" /\ i < Len(pattern)
    THEN <<[kind |-> "literal", char |-> pattern[i + 1]]>> \o Tokens(pattern, i + 2)
    ELSE IF pattern[i] = "?" THEN <<[kind |-> "one"]>> \o Tokens(pattern, i + 1)
    ELSE IF pattern[i] = "*" THEN <<[kind |-> "many"]>> \o Tokens(pattern, i + 1)
    ELSE <<[kind |-> "literal", char |-> pattern[i]]>> \o Tokens(pattern, i + 1)

\* str from position pos on matches the tokens from t on
RECURSIVE MatchesTokens(_, _, _, _)
MatchesTokens(tokens, t, str, pos) ==
    IF t > Len(tokens) THEN pos = Len(str) + 1
    ELSE IF tokens[t].kind = "one"
    THEN pos <= Len(str) /\ MatchesTokens(tokens, t + 1, str, pos + 1)
    ELSE IF tokens[t].kind = "many"
    THEN \E k \in pos..(Len(str) + 1) : MatchesTokens(tokens, t + 1, str, k)
    ELSE /\ pos <= Len(str)
         /\ str[pos] = tokens[t].char
         /\ MatchesTokens(tokens, t + 1, str, pos + 1)

\* C18: an escaped character, "\?" and "\*" and "\\" included, is the literal
\* character: the analyzer counts it in fixed_length and not as a star, and
\* every candidate generated carries it verbatim at its position
C18_EscapedIsLiteral ==
    LET tokens == Tokens(probe.pattern, 1)
        info == calculate_pattern_info(probe.segments)
        of(kinds) == Cardinality({t \in DOMAIN tokens : tokens[t].kind \in kinds})
    IN  probe.pc = "pattern" =>
          /\ info.fixed_length = of({"literal", "one"})
          /\ info.num_stars = of({"many"})
          /\ CountQMarks(probe.segments) = of({"one"})
          /\ \A n \in DOMAIN probe.calls :
               probe.calls[n].out.ok =>
                 MatchesTokens(tokens, 1, probe.calls[n].out.pwd, 1)


(***************************************************************************)
(* main.cpp from its entry to the call of the controller: the command      *)
(* line is checked, the verifier is looked for, the skip list is loaded or *)
(* created.  A run that gets past the controller's parameter check goes on *)
(* as the runs of Spec do                                                  *)
(***************************************************************************)
UpperCase == <<"A", "B", "C", "D", "E", "F", "G", "H", "I", "J", "K", "L", "M",
               "N", "O", "P", "Q", "R", "S", "T", "U", "V", "W", "X", "Y", "Z">>
LowerCase == <<"a", "b", "c", "d", "e", "f", "g", "h", "i", "j", "k", "l", "m",
               "n", "o", "p", "q", "r", "s", "t", "u", "v", "w", "x", "y", "z">>

\* std::tolower on every character of the string
tolower(str) ==
    [i \in DOMAIN str |->
       IF \E n \in DOMAIN UpperCase : UpperCase[n] = str[i]
       THEN LowerCase[CHOOSE n \in DOMAIN UpperCase : UpperCase[n] = str[i]]
       ELSE str[i]]

Digits == <<"0", "1", "2", "3", "4", "5", "6", "7", "8", "9">>
IsDigit(c) == \E n \in DOMAIN Digits : Digits[n] = c
DigitValue(c) == (CHOOSE n \in DOMAIN Digits : Digits[n] = c) - 1

\* the digits of str from position i on, read as a number after acc
RECURSIVE StoiDigits(_, _, _)
StoiDigits(str, i, acc) ==
    IF i > Len(str) \/ ~IsDigit(str[i]) THEN acc
    ELSE StoiDigits(str, i + 1, 10 * acc + DigitValue(str[i]))

\* std::stoi: leading blanks, an optional sign, then digits up to the first
\* other character; [ok, val], ok false when it throws invalid_argument
RECURSIVE stoi(_)
stoi(str) ==
    IF str = <<>> THEN [ok |-> FALSE, val |-> 0]
    ELSE IF str[1] = " " THEN stoi(Tail(str))
    ELSE LET signed == str[1] \in {"-", "+"}
             first == IF signed THEN 2 ELSE 1
         IN  IF first > Len(str) \/ ~IsDigit(str[first]) THEN [ok |-> FALSE, val |-> 0]
             ELSE [ok |-> TRUE,
                   val |-> IF str[1] = "-" THEN 0 - StoiDigits(str, first, 0)
                           ELSE StoiDigits(str, first, 0)]

ModeNames ==
    (<<"d", "e", "s", "c", "e", "n", "d", "i", "n", "g">> :> "DESCENDING")
    @@ (<<"a", "s", "c", "e", "n", "d", "i", "n", "g">> :> "ASCENDING")
    @@ (<<"r", "a", "n", "d", "o", "m">> :> "RANDOM_LCG")

\* the command lines of the model
CharsetArgs == {<<>>, <<"a", "b">>}
LengthArgs == {<<"1">>, <<"2">>, <<"0">>, <<"-", "1">>, <<"x">>, <<>>,
               <<"2", "x">>, <<" ", "1">>}
ModeArgs == {<<"a", "s", "c", "e", "n", "d", "i", "n", "g">>, <<"D", "E", "S", "C", "E", "N", "D", "I", "N", "G">>, <<"R", "a", "n", "d", "o", "m">>, <<"f", "a", "s", "t">>, <<>>}

\* the skip file before the run: none, one an earlier run wrote, a damaged one
SkipFiles ==
    {NoFile,
     [exists |-> TRUE, bytes |-> serialize(insert(BloomFilterNew(6), <<"a">>))],
     [exists |-> TRUE, bytes |-> <<0>>]}

MainInit ==
    /\ proc \in [pc : {"main"}, argc : {5, 6}, charset : CharsetArgs,
                 min_arg : LengthArgs, max_arg : LengthArgs, mode_arg : ModeArgs,
                 skip_file : BOOLEAN, disk : SkipFiles,
                 min_length : {0}, max_length : {0}, mode : {"none"},
                 located : {FALSE}, deserialize_calls : {0},
                 skipListFilePath : {FALSE}, skipFilter : {BloomFilterDefault},
                 exit : {-1}]
    /\ proc.argc = 5 => ~proc.skip_file
    /\ ~proc.skip_file => proc.disk = NoFile
    /\ bf = Unused
    /\ probe = Unused
    /\ RunParked

Return(status) == [proc EXCEPT !.pc = "exited", !.exit = status]

\* main.cpp 143-222
ParseArguments ==
    /\ proc.pc = "main"
    /\ LET min == stoi(proc.min_arg)
           max == stoi(proc.max_arg)
           mode_str == tolower(proc.mode_arg)
       IN  proc' = IF proc.argc < 6 THEN Return(2)
                   ELSE IF ~min.ok \/ min.val <= 0 THEN Return(2)
                   ELSE IF ~max.ok \/ max.val <= 0 THEN Return(2)
                   ELSE IF min.val > max.val THEN Return(2)
                   ELSE IF mode_str \notin DOMAIN ModeNames THEN Return(2)
                   ELSE [proc EXCEPT !.pc = "find_7z", !.min_length = min.val,
                                     !.max_length = max.val,
                                     !.mode = ModeNames[mode_str],
                                     !.skipListFilePath = proc.skip_file]
    /\ UNCHANGED <<run, bf, probe>>

\* main.cpp 227-314
FindVerifier(exeDir_known, sevenZipFound) ==
    /\ proc.pc = "find_7z"
    /\ proc' = IF ~exeDir_known THEN Return(4)
               ELSE IF ~sevenZipFound THEN [Return(3) EXCEPT !.located = TRUE]
               ELSE [proc EXCEPT !.pc = "skip_list", !.located = TRUE]
    /\ UNCHANGED <<run, bf, probe>>

\* main.cpp 326-465
InitSkipList(alloc_ok) ==
    /\ proc.pc = "skip_list"
    /\ IF ~proc.skipListFilePath
       THEN proc' = [proc EXCEPT !.pc = "controller"]
       ELSE \E loaded \in {deserialize(proc.skipFilter, proc.disk, alloc_ok)} :
            \E created \in {NewSkipList([skip_file |-> TRUE, charset |-> proc.charset,
                                         min_length |-> proc.min_length,
                                         max_length |-> proc.max_length])} :
              proc' = IF loaded.ret = "true" /\ isValid(loaded.filter)
                      THEN [proc EXCEPT !.pc = "controller",
                                        !.deserialize_calls = @ + 1,
                                        !.skipFilter = loaded.filter]
                      ELSE [proc EXCEPT !.pc = "controller",
                                        !.deserialize_calls = @ + 1,
                                        !.skipFilter = created.filter,
                                        !.skipListFilePath = created.path]
    /\ UNCHANGED <<run, bf, probe>>

\* main.cpp 468-487 with the parameter check of the controller
CallController ==
    /\ proc.pc = "controller"
    /\ proc' = IF Len(proc.charset) = 0 \/ proc.min_length <= 0
                  \/ proc.max_length < proc.min_length
               THEN Return(1)
               ELSE [proc EXCEPT !.pc = "running"]
    /\ UNCHANGED <<run, bf, probe>>

MainNext ==
    \/ ParseArguments
    \/ \E exeDir_known \in BOOLEAN, sevenZipFound \in BOOLEAN :
         FindVerifier(exeDir_known, sevenZipFound)
    \/ \E alloc_ok \in BOOLEAN : InitSkipList(alloc_ok)
    \/ CallController

MainSpec == MainInit /\ [][MainNext]_vars

\* C19: an empty charset, a min_length below 1, a max_length below min_length
\* or a mode that is none of the three names ends the run with status 2
\* before the verifier is looked for and before the skip file is read
C19_BadConfigurationExitsTwo ==
    LET min == stoi(proc.min_arg)
        max == stoi(proc.max_arg)
        bad == \/ proc.charset = <<>>
               \/ min.ok /\ min.val < 1
               \/ min.ok /\ max.ok /\ max.val < min.val
               \/ tolower(proc.mode_arg) \notin DOMAIN ModeNames
    IN  bad /\ proc.pc # "main" =>
          /\ proc.pc = "exited"
          /\ proc.exit = 2
          /\ ~proc.located
          /\ proc.deserialize_calls = 0

\* C20: in a run with --skip-file whose stop file exists when the controller
\* starts, whether the filter is in use or was disabled at launch, no
\* candidate is handed to the oracle and the run ends with stop_requested set
C20_StopFileAtStartEndsRun ==
    cfg.skip_file /\ ctl.stop_at_entry =>
      /\ tested = EmptyBag
      /\ Exited => stop_requested


(***************************************************************************)
(* A second launch of the same command line after a run that found a      *)
(* password and made its final save: main() loads the skip file the first  *)
(* run wrote (main.cpp 334-345); the front end has removed the stop file   *)
(***************************************************************************)
\* the first run found a password and its final save wrote the filter
FoundAndSaved ==
    /\ Exited
    /\ stdout # <<>>
    /\ skipListFilePath
    /\ \E e \in saves : e.at = "final"
    /\ file = [state |-> "saved", image |-> skipFilter]

Restart ==
    /\ prev.run = 1
    /\ FoundAndSaved
    /\ prev' = [run |-> 2, found |-> stdout[1],
                rejected |-> BagToSet(tested) \ cfg.accepts]
    /\ \E loaded \in {deserialize(BloomFilterDefault,
                                  [exists |-> TRUE, bytes |-> serialize(file.image)],
                                  TRUE)} :
         IF loaded.ret = "true" /\ isValid(loaded.filter)
         THEN skipFilter' = loaded.filter /\ skipListFilePath' = TRUE
         ELSE /\ skipFilter' = NewSkipList(cfg).filter
              /\ skipListFilePath' = NewSkipList(cfg).path
    /\ stopFile' = FALSE
    /\ filterMutex' = Free
    /\ ctl' = [pc |-> "enter", min_length |-> cfg.min_length,
               max_length |-> cfg.max_length, mode |-> cfg.mode, segments |-> <<>>,
               kind |-> "none", length |-> 0, total |-> U64(0), t |-> 0,
               indices |-> <<>>, prefix |-> 0, per_length_counts |-> <<>>,
               spawned_after_stop |-> 0, stop_at_entry |-> FALSE,
              elapsed |-> 0, checkpointed |-> FALSE, dispatched |-> <<>>, threw |-> FALSE, spawn_failed |-> {}, foundMutex |-> Free,
              ret |-> <<>>]
    /\ wk' = [w \in Threads |-> IdleWorker]
    /\ foundFlag' = FALSE
    /\ foundPassword_internal' = <<>>
    /\ stop_requested' = FALSE
    /\ stdout' = <<>>
    /\ exitCode' = -1
    /\ oracleAccepted' = {}
    /\ tested' = EmptyBag
    /\ saves' = {}
    /\ pwdWrites' = 0
    /\ UNCHANGED <<aside, cfg, file>>

RestartNext == Next \/ Restart

RestartSpec == Init /\ [][RestartNext]_vars

\* C15: in the run that restarts from the saved filter no candidate the first
\* run saw rejected is handed to the oracle again; the password w found
\* before is handed to the oracle again, and a password is found again,
\* unless the run is stopped, the filter answers contains(w) = true (w was
\* never inserted: a false positive against the inserted candidates of both
\* runs), or another accepted password ends the run first
C15_RestartSkipsRejected ==
    prev.run = 2 =>
      /\ \A p \in prev.rejected : ~BagIn(p, tested)
      /\ BagIn(prev.found, tested) => prev.found \in oracleAccepted
      /\ Exited /\ ~stop_requested =>
           \/ BagIn(prev.found, tested) /\ stdout # <<>>
           \/ contains(skipFilter, prev.found)
           \/ stdout # <<>> /\ stdout[1] # prev.found

C15_FoundAgainAfterSkips ==
    /\ prev.run = 2
    /\ Exited
    /\ Cardinality(prev.rejected) >= 2
    /\ stdout = <<prev.found>>
    /\ BagToSet(tested) = {prev.found}

\* C15 as stated: the restarted run, when it is not stopped, hands no
\* candidate rejected before to the oracle, hands w to the oracle and finds
\* it again
C15_RetestedAndFoundAgain ==
    prev.run = 2 =>
      /\ \A p \in prev.rejected : ~BagIn(p, tested)
      /\ Exited /\ ~stop_requested =>
           BagIn(prev.found, tested) /\ stdout = <<prev.found>>


(***************************************************************************)
(* The stop flag file is only read                                         *)
(***************************************************************************)
\* C21: no step of the controller or of a worker creates, modifies or
\* removes the stop flag file; stop_flag_exists only opens it for reading
C21_StopFileOnlyRead ==
    [][(ControllerNext \/ \E w \in Threads : WorkerNext(w)) => stopFile' = stopFile]_vars

\* the run saw the stop flag file, ended, and the file is still there
C21_StopFileSurvivesRun ==
    /\ stopFile
    /\ stop_requested
    /\ ctl.pc = "exited"


(***************************************************************************)
(* What the workers insert into the filter                                 *)
(***************************************************************************)
\* C22: the filter changes only by a worker's insert; the worker holds the
\* filter mutex, the candidate it inserts is the one of its current index,
\* the oracle was called on it in this run and rejected it, and the worker
\* moves to its next index with that step; a candidate the oracle accepted
\* is not inserted
C22_InsertOnlyRejected ==
    [][/\ skipFilter' # skipFilter => \E w \in Threads : WorkerInsert(w)
       /\ \A w \in Threads :
            WorkerInsert(w) =>
              /\ filterMutex = {w}
              /\ BagIn(wk[w].pwd, tested)
              /\ wk[w].pwd \notin cfg.accepts
              /\ wk[w].pwd \notin oracleAccepted
              /\ BuildPassword(w) = Built(wk[w].pwd)
              /\ wk'[w].idx = U64Add(wk[w].idx, U64(1))]_vars

\* a rejected candidate is in the filter, an accepted one was tested and is not
C22_RejectedInsertedAcceptedNot ==
    /\ oracleAccepted # {}
    /\ \E p \in BagToSet(tested) : p \notin cfg.accepts /\ contains(skipFilter, p)
    /\ \A a \in oracleAccepted : ~contains(skipFilter, a)


(***************************************************************************)
(* The length loop of the ascending and descending modes                   *)
(***************************************************************************)
\* C23: in the ascending and descending walks the length changes only when
\* no worker is running, and then by one step in the direction of the walk;
\* a worker submits candidates of the current length only, and every
\* candidate submitted so far has the current length or an earlier one
C23_JoinBeforeNextLength ==
    [][(ctl.mode \in {"ASCENDING", "DESCENDING"} /\ ctl.pc \notin {"enter", "rand_setup"}) =>
         /\ ctl'.length # ctl.length =>
              /\ \A w \in Threads : ~Running(w)
              /\ ctl'.length = ctl.length + Step(ctl.mode)
         /\ \A w \in Threads :
              Running(w)' /\ wk'[w].pwd # <<>> => Len(wk'[w].pwd) = ctl'.length
         /\ \A p \in BagToSet(tested') :
              (Len(p) - ctl'.length) * Step(ctl.mode) <= 0]_vars

\* a worker of the second length of a walk is about to call the oracle, the
\* candidates of the first length having been submitted
C23_SecondLengthAfterFirst ==
    /\ ctl.mode \in {"ASCENDING", "DESCENDING"}
    /\ ctl.length = StartLen(ctl.mode, ctl.min_length, ctl.max_length) + Step(ctl.mode)
    /\ \E w \in Threads : wk[w].pc = "try" /\ Len(wk[w].pwd) = ctl.length
    /\ \E p \in BagToSet(tested) : Len(p) = ctl.length - Step(ctl.mode)


(***************************************************************************)
(* getPatternPasswordByGlobalIndex over the lengths of a range             *)
(***************************************************************************)
\* the count of the pattern's candidates of length L and of the lengths
\* from min_len up to, and without, L
CountOfLength(L) ==
    U64ToInt(calculate_pattern_combinations(probe.segments, Len(probe.charset), L).val)

CountBefore(L) == SumFrom([l \in 1..(L - 1) |-> IF l < probe.min_len THEN 0
                                                ELSE CountOfLength(l)], 1)

\* the candidates of length L: what getPatternPasswordByIndex gives for the
\* indices below the count of L
CandidatesOfLength(L) ==
    {getPatternPasswordByIndex(i, probe.segments, probe.charset, L).pwd :
       i \in 0..(CountOfLength(L) - 1)}

\* C24: with at most one "*" and the counts N_L of the lengths min_len..max_len,
\* getPatternPasswordByGlobalIndex(g) succeeds exactly for g below the sum of
\* the N_L; g lies in the window of exactly one length L and the result is
\* getPatternPasswordByIndex for L at g less the counts of the lengths before
\* L; different g give different strings, and every candidate of every
\* length of the range is the result for some g
C24_GlobalIndexBijection ==
    LET lengths == probe.min_len..probe.length
        total == CountBefore(probe.length + 1)
        windowOf(g) == {L \in lengths : CountBefore(L) <= g /\ g < CountBefore(L + 1)}
        global(g) == getPatternPasswordByGlobalIndex(g, probe.segments, probe.charset,
                                                     probe.min_len, probe.length,
                                                     probe.per_length_counts)
    IN  probe.pc = "global" =>
          /\ \A n \in DOMAIN probe.calls :
               LET g == U64ToInt(probe.calls[n].index)
               IN  IF g < total
                   THEN /\ Cardinality(windowOf(g)) = 1
                        /\ \A L \in windowOf(g) :
                             probe.calls[n].out =
                               getPatternPasswordByIndex(g - CountBefore(L), probe.segments,
                                                         probe.charset, L)
                        /\ probe.calls[n].out.ok
                   ELSE ~probe.calls[n].out.ok
          /\ \A n1, n2 \in DOMAIN probe.calls :
               /\ U64ToInt(probe.calls[n1].index) < total
               /\ U64ToInt(probe.calls[n2].index) < total
               /\ probe.calls[n1].index # probe.calls[n2].index
               => probe.calls[n1].out.pwd # probe.calls[n2].out.pwd
          /\ probe.calls = <<>> =>
               {global(g).pwd : g \in 0..(total - 1)}
                 = UNION {CandidatesOfLength(L) : L \in lengths}

\* two calls in the windows of two lengths, the second not at its window's start
C24_TwoWindows ==
    /\ probe.pc = "global"
    /\ probe.pattern = <<"b", "*">>
    /\ probe.min_len = 1
    /\ Len(probe.calls) = 2
    /\ probe.calls[1].out.ok /\ Len(probe.calls[1].out.pwd) = 2
    /\ probe.calls[2].out.ok /\ probe.calls[2].out.pwd = <<"b", "b", "a">>


(***************************************************************************)
(* calculate_pattern_combinations                                          *)
(***************************************************************************)
\* C^n as a 64-bit value, or nothing when it is 2^64 or more; C is 1, 2, 3
\* or sixteen and n is below 40, so that C^n fits unless C is sixteen and n
\* is sixteen or more
PowerOrNothing(C, n) ==
    IF C = 16
    THEN IF n >= 16 THEN Nothing
         ELSE Some([limb \in 1..4 |-> IF limb = (n \div 4) + 1 THEN 16^(n % 4) ELSE 0])
    ELSE IF C = 1 THEN Some(U64(1))
    ELSE IF n <= 16 THEN Some(U64(C^n))
    ELSE Some(U64MulSmall(U64(C^16), C^(n - 16)))

\* C25: for q the number of "?" segments, the analyzer returns 0 for every
\* length below fixed_length; otherwise with no "*" it returns C^q at
\* fixed_length and 0 at any other length, with one "*" it returns
\* C^(q + L - fixed_length), with two or more "*" it returns nothing; and it
\* returns nothing where the power is 2^64 or more
C25_CountOfPattern ==
    LET info == calculate_pattern_info(probe.segments)
        q == Cardinality({i \in DOMAIN probe.segments : probe.segments[i] = QMark})
        C == probe.charset_size
        L == probe.length
    IN  probe.pc = "count" =>
          probe.count =
            IF L < info.fixed_length THEN Some(U64(0))
            ELSE IF info.num_stars = 0
            THEN IF L = info.fixed_length THEN PowerOrNothing(C, q) ELSE Some(U64(0))
            ELSE IF info.num_stars = 1
            THEN PowerOrNothing(C, q + L - info.fixed_length)
            ELSE Nothing

\* one "*" and a power of sixteen that is 2^64: nothing is returned
C25_OverflowIsNothing ==
    /\ probe.pc = "count"
    /\ calculate_pattern_info(probe.segments).num_stars = 1
    /\ probe.charset_size = 16
    /\ probe.length - calculate_pattern_info(probe.segments).fixed_length
         + CountQMarks(probe.segments) = 16
    /\ ~probe.count.ok

\* C25 as stated: with two or more "*" the analyzer returns nothing for
\* every length
C25_TwoStarsAlwaysNothing ==
    probe.pc = "count" /\ calculate_pattern_info(probe.segments).num_stars >= 2
    => ~probe.count.ok


(***************************************************************************)
(* The length range of a pattern run                                       *)
(***************************************************************************)
\* the run has a pattern and is past the controller's parameter check
PatternRunEntered ==
    /\ cfg.pattern # NoPattern
    /\ ctl.pc \notin {"enter", "report", "exited"} \/ ctl.segments # <<>>

\* C26: in a pattern run the range the controller works with is: without a
\* "*", min_length = max_length = fixed_length, also where the configured
\* min_length is larger; with a "*", min_length is the larger of the
\* configured min_length and fixed_length and max_length is the larger of
\* the configured max_length and that min_length.  Every candidate
\* submitted has a length in this range, so with a "*" none is shorter than
\* the configured min_length
C26_CoercedRange ==
    LET info == calculate_pattern_info(parse_pattern(cfg.pattern))
        larger(a, b) == IF a < b THEN b ELSE a
    IN  PatternRunEntered =>
          /\ info.num_stars = 0 =>
               ctl.min_length = info.fixed_length /\ ctl.max_length = info.fixed_length
          /\ info.num_stars > 0 =>
               /\ ctl.min_length = larger(cfg.min_length, info.fixed_length)
               /\ ctl.max_length = larger(cfg.max_length, ctl.min_length)
               /\ \A p \in BagToSet(tested) : Len(p) >= cfg.min_length
          /\ \A p \in BagToSet(tested) :
               ctl.min_length <= Len(p) /\ Len(p) <= ctl.max_length

\* a pattern without "*" whose fixed length is below the configured
\* min_length: the candidate of the fixed length has been submitted
C26_LoweredToFixedLength ==
    /\ PatternRunEntered
    /\ ctl.min_length < cfg.min_length
    /\ \E p \in BagToSet(tested) : Len(p) = ctl.min_length

\* C26 as stated: min_length is never lowered, and no candidate shorter than
\* the configured min_length is submitted
C26_NeverBelowConfiguredMin ==
    PatternRunEntered =>
      /\ ctl.min_length >= cfg.min_length
      /\ \A p \in BagToSet(tested) : Len(p) >= cfg.min_length


(***************************************************************************)
(* The checkpoint after a join                                             *)
(***************************************************************************)
\* the step in which the controller has joined the workers of a dispatch
JoinStep == ctl.pc = "join" /\ ctl'.pc # "join"

\* C27: after the join of a dispatch the controller serializes the filter
\* exactly when the filter is there, the interval is positive, no stop has
\* been requested and the interval has passed; otherwise the file is left as
\* it is.  With the interval 0 it never does.  Whatever the serialize call
\* did to the file, the step leaves stop_requested as it was and the
\* controller goes on to the next length or, in random mode, to the end
C27_CheckpointCondition ==
    [][JoinStep =>
         /\ ctl'.checkpointed <=> /\ FilterOn
                                  /\ cfg.checkpointInterval > 0
                                  /\ ~stop_requested
                                  /\ ctl'.elapsed >= cfg.checkpointInterval
         /\ ~ctl'.checkpointed => file' = file /\ saves' = saves
         /\ ctl'.checkpointed => SaveEvent(Controller, "checkpoint") \in saves'
         /\ cfg.checkpointInterval = 0 => ~ctl'.checkpointed
         /\ stop_requested' = stop_requested
         /\ ctl'.pc = IF ctl.mode = "RANDOM_LCG" THEN "final" ELSE "loop"]_vars

\* a checkpoint was due and its serialize left a truncated file; the run
\* goes on with the next length and no stop is requested
C27_FailedCheckpointGoesOn ==
    /\ ctl.checkpointed
    /\ file.state = "truncated"
    /\ ctl.pc = "spawn"
    /\ ~stop_requested

\* C27 as stated: the checkpoint is written exactly when the filter is
\* there, the interval is positive and the interval has passed
C27_DueWheneverIntervalPassed ==
    [][JoinStep =>
         (ctl'.checkpointed <=> /\ FilterOn
                                /\ cfg.checkpointInterval > 0
                                /\ ctl'.elapsed >= cfg.checkpointInterval)]_vars


(***************************************************************************)
(* insert() and serialize() exclude each other                             *)
(***************************************************************************)
\* the workers that are inside insert()
InsideInsert == {w \in Threads : wk[w].pc = "ins_in"}

\* C28: at most one thread is inside insert() and it is the holder of the
\* filter mutex; a step that serializes the filter, by a pattern worker on
\* the stop flag, by the controller at a checkpoint or at the final save, is
\* taken with no thread inside insert() and the mutex free for it
C28_InsertSerializeExclusive ==
    [][/\ Cardinality(InsideInsert') <= 1
       /\ filterMutex' = InsideInsert'
       /\ (\/ \E w \in Threads : WorkerSerialize(w)
           \/ JoinAndCheckpoint /\ ctl'.checkpointed
           \/ Finalize /\ performFinalSave)
          => InsideInsert = {} /\ filterMutex = Free]_vars

\* one worker is inside insert() while another waits for the mutex to
\* serialize the filter
C28_SerializeWaitsForInsert ==
    \E w, v \in Threads :
      /\ wk[w].pc = "ins_in"
      /\ wk[v].pc = "ser"
      /\ filterMutex = {w}


(***************************************************************************)
(* Random mode without a pattern                                           *)
(***************************************************************************)
\* random mode, no pattern, no skip list and so no stop flag file, an
\* oracle that rejects everything, and a count of candidates that is small
\* enough for the index vector
C29_Pre ==
    /\ cfg.mode = "RANDOM_LCG"
    /\ cfg.pattern = NoPattern
    /\ ~cfg.skip_file
    /\ cfg.accepts = {}
    /\ CountRange(cfg.charset, cfg.pattern, cfg.min_length, cfg.max_length) >= 0

\* C29: the index vector is a permutation of 0..N-1 for N the number of
\* strings of the range, the offset is the number of shorter strings, a
\* worker submits getPasswordByIndex at max_length of the vector's entry at
\* its place plus the offset and moves through the vector one place at a
\* time; no string is submitted twice, none outside the range, and at the
\* end every string of the range has been submitted
C29_RandomCoversRangeOnce ==
    [][LET N == Cardinality(AllStrings(cfg))
           shorter == UNION {[1..L -> Range(cfg.charset)] :
                               L \in 1..(cfg.min_length - 1)}
       IN  C29_Pre /\ ctl.pc # "enter" =>
             /\ ctl'.pc \in {"spawn", "create", "join"} =>
                  /\ DOMAIN ctl'.indices = 0..(N - 1)
                  /\ {ctl'.indices[i] : i \in 0..(N - 1)} = 0..(N - 1)
                  /\ ctl'.prefix = Cardinality(shorter)
             /\ \A w \in Threads :
                  /\ wk'[w].pc = "try" =>
                       Built(wk'[w].pwd) =
                         getPasswordByIndex(U64(ctl'.indices[U64ToInt(wk'[w].idx)]
                                                + ctl'.prefix),
                                            cfg.charset, cfg.max_length)
                  /\ Running(w) /\ Running(w)' =>
                       wk'[w].idx \in {wk[w].idx, U64Add(wk[w].idx, U64(1))}
             /\ \A s \in BagToSet(tested') : CopiesIn(s, tested') = 1
             /\ BagToSet(tested') \subseteq AllStrings(cfg)
             /\ Exited' => tested' = SetToBag(AllStrings(cfg))]_vars

\* two workers have gone through a shuffled vector of the four strings of
\* length two, the offset being the two strings of length one
C29_FourStringsShuffled ==
    /\ C29_Pre
    /\ Exited
    /\ cfg.numThreads = 2
    /\ ctl.prefix = 2
    /\ ctl.indices[0] = 3
    /\ BagCardinality(tested) = 4


(***************************************************************************)
(* The limit of the index vector in random mode                            *)
(***************************************************************************)
\* "more than 2^29", for counts that are not added up any further
Beyond == 2^29 + 1

\* a + b where both are counts of at most 2^29, or Beyond
CappedSum(a, b) ==
    IF a = Beyond \/ b = Beyond THEN Beyond
    ELSE IF a + b > 2^29 THEN Beyond
    ELSE a + b

\* the number of candidates of the call's range, N, when it is at most 2^29,
\* and Beyond otherwise; the charset has 2 or 16 characters, so that a
\* length with n free places has 2^(bits * n) candidates
RECURSIVE CandidatesFrom(_, _)
CandidatesFrom(L, max_length) ==
    LET info == calculate_pattern_info(probe.segments)
        bits == IF probe.charset_size = 2 THEN 1 ELSE 4
        places == IF probe.pattern = NoPattern THEN L
                  ELSE IF info.num_stars = 0 THEN CountQMarks(probe.segments)
                  ELSE CountQMarks(probe.segments) + L - info.fixed_length
        ofLength == IF probe.pattern # NoPattern /\ L < info.fixed_length THEN 0
                    ELSE IF probe.pattern # NoPattern /\ info.num_stars = 0
                            /\ L # info.fixed_length THEN 0
                    ELSE IF bits * places > 29 THEN Beyond
                    ELSE 2^(bits * places)
    IN  IF L > max_length THEN 0
        ELSE CappedSum(ofLength, CandidatesFrom(L + 1, max_length))

\* the range the controller counts over
SetupLengths ==
    IF probe.pattern = NoPattern
    THEN [min_length |-> probe.min_len, max_length |-> probe.length]
    ELSE CoercedLengths(probe.min_len, probe.length,
                        calculate_pattern_info(probe.segments))

\* C30: in random mode, with and without a pattern, a candidate count N
\* above 2^29 or one whose computation leaves 64 bits makes the controller
\* report an error, build no index vector and create no shuffled worker; a
\* count from 1 to 2^29, 2^29 included, gives a vector of N entries and at
\* least one worker
C30_VectorOnlyUpToLimit ==
    probe.pc = "setup" =>
      LET N == CandidatesFrom(SetupLengths.min_length, SetupLengths.max_length)
      IN  IF N = Beyond
          THEN /\ probe.plan.outcome \in {"failed", "too_large"}
               /\ probe.plan.indices_size = 0
               /\ probe.plan.workers = 0
          ELSE /\ probe.plan.outcome = IF N = 0 THEN "zero" ELSE "shuffle"
               /\ probe.plan.indices_size = N
               /\ N > 0 => probe.plan.workers >= 1

\* a pattern run whose count is above the limit and fits 64 bits: no vector
C30_PatternCountAboveLimit ==
    /\ probe.pc = "setup"
    /\ probe.pattern = <<"b", "*">>
    /\ probe.charset_size = 2
    /\ probe.min_len = 28 /\ probe.length = 30
    /\ probe.plan = [outcome |-> "too_large", indices_size |-> 0, workers |-> 0]


(***************************************************************************)
(* C31: a length that cannot be walked is passed over                      *)
(***************************************************************************)
\* the count of length L as the length loop of the run computes it
CountOfRunLength(L) ==
    IF ctl.kind = "sequential" THEN calculate_combinations(Len(cfg.charset), L)
    ELSE calculate_pattern_combinations(ctl.segments, Len(cfg.charset), L)

Dispatchable(L) == CountOfRunLength(L).ok /\ CountOfRunLength(L).val # U64(0)

\* the lengths from a to b in the direction of the walk, those that can be
\* counted only
RECURSIVE WalkFrom(_, _, _)
WalkFrom(L, last, step) ==
    IF (step = 1 /\ L > last) \/ (step = -1 /\ L < last) THEN <<>>
    ELSE (IF Dispatchable(L) THEN <<L>> ELSE <<>>) \o WalkFrom(L + step, last, step)

FullWalk ==
    WalkFrom(StartLen(ctl.mode, ctl.min_length, ctl.max_length),
             IF ctl.mode = "ASCENDING" THEN ctl.max_length ELSE ctl.min_length,
             Step(ctl.mode))

\* the walk up to the length before ctl.length
WalkBefore ==
    WalkFrom(StartLen(ctl.mode, ctl.min_length, ctl.max_length),
             ctl.length - Step(ctl.mode), Step(ctl.mode))

InLengthLoop == ctl.mode # "RANDOM_LCG" /\ ctl.pc \in {"loop", "spawn", "create", "join"}

\* C31: in the ascending and descending modes a length whose count does not
\* fit 64 bits (or, with a pattern, is zero or has no value) gets no worker
\* and no oracle call, and the walk goes on: the lengths handed to workers
\* so far are, in the order of the walk, exactly the lengths passed so far
\* that can be counted, and a run that neither finds nor is stopped has
\* handed out every such length of the range
C31_SkippedLengthOnly ==
    /\ InLengthLoop =>
         /\ ctl.pc = "loop" => ctl.dispatched = WalkBefore
         /\ ctl.pc # "loop" =>
              /\ Dispatchable(ctl.length)
              /\ ctl.dispatched = Append(WalkBefore, ctl.length)
         /\ \A w \in Threads : Running(w) => ctl.pc # "loop"
    /\ ctl.mode # "RANDOM_LCG" /\ ctl.kind # "none" =>
         /\ \A p \in BagToSet(tested) : Len(p) \in Range(ctl.dispatched)
         /\ \A i \in DOMAIN ctl.dispatched : Dispatchable(ctl.dispatched[i])
         /\ Exited /\ ~foundFlag /\ ~stop_requested => ctl.dispatched = FullWalk

\* a descending run over sixteen letters has passed over length 16 and has
\* handed out length 15
C31_PassedOverSixteen ==
    /\ Exited
    /\ cfg.charset = Letters
    /\ cfg.mode = "DESCENDING"
    /\ cfg.min_length = OverflowLen - 1
    /\ ~Dispatchable(OverflowLen)
    /\ ctl.dispatched = <<OverflowLen - 1>>
    /\ tested = SetToBag({Repeat("a", OverflowLen - 1)})


(***************************************************************************)
(* C32: the chunks of a dispatch                                           *)
(***************************************************************************)
\* the least c with c * T >= N, for N of 64 bits
CeilDiv(N, T) ==
    IF U64MulSmall(U64DivSmall(N, T), T) = N THEN U64DivSmall(N, T)
    ELSE U64Add(U64DivSmall(N, T), U64(1))

\* min(a, b) for values of 64 bits
U64Min(a, b) == IF U64Gt(a, b) THEN b ELSE a

Started == {w \in Threads : wk[w].pc # "idle"}

\* C32: when the spawn loop of a dispatch over N >= 1 candidates with T
\* threads has ended and no stop was requested, worker t was started for
\* every t whose chunk [t * ceil(N/T), min((t+1) * ceil(N/T), N)) is not
\* empty and for no other t, with exactly that chunk; the first chunk
\* starts at 0, each further one where the one before it ends, the last one
\* ends at N, and at most T workers were started
C32_ChunksPartitionRange ==
    ctl.pc = "join" /\ ~stop_requested =>
      LET N == ctl.total
          T == cfg.numThreads
          c == CeilDiv(N, T)
          lo(t) == U64MulSmall(c, t)
          hi(t) == U64Min(U64MulSmall(c, t + 1), N)
      IN  /\ N # U64(0)
          /\ Started = {t \in 0..(T - 1) : U64Gt(hi(t), lo(t))}
          /\ \A t \in Started :
               /\ wk[t].start_idx = lo(t)
               /\ wk[t].end_idx = hi(t)
               /\ t = 0 => wk[t].start_idx = U64(0)
               /\ t > 0 => t - 1 \in Started /\ wk[t].start_idx = wk[t - 1].end_idx
               /\ t + 1 \notin Started => wk[t].end_idx = N
          /\ Started # {}
          /\ Cardinality(Started) <= T

\* three candidates for two threads: the chunks are [0, 2) and [2, 3)
C32_ThreeForTwo ==
    /\ ctl.pc = "join"
    /\ ~stop_requested
    /\ ctl.total = U64(3)
    /\ cfg.numThreads = 2
    /\ wk[0].start_idx = U64(0) /\ wk[0].end_idx = U64(2)
    /\ wk[1].start_idx = U64(2) /\ wk[1].end_idx = U64(3)


(***************************************************************************)
(* brute_force.cpp: exceptions thrown inside the try block of              *)
(* brute_force_worker_combined.  The run with them is FaultSpec.           *)
(***************************************************************************)
\* "std::vector<uint64> indices(total)" throws std::bad_alloc: no thread
\* exists yet, the handler at the end of the try block is entered
IndexVectorFails ==
    /\ ctl.pc = "rand_setup"
    /\ ~StopFlagSeen
    /\ RandomPlan(Len(cfg.charset), ctl.min_length, ctl.max_length,
                  ctl.segments, ctl.kind = "shuffled_pattern").outcome = "shuffle"
    /\ ctl' = [ctl EXCEPT !.threw = TRUE, !.pc = "catch"]
    /\ UNCHANGED <<aside, prev, cfg, stopFile, file, skipFilter, skipListFilePath, filterMutex, wk,
                   foundFlag, foundPassword_internal, stop_requested, stdout, exitCode,
                   oracleAccepted, tested, saves, pwdWrites>>

\* threads.emplace_back(...) throws std::system_error.  The stack is unwound
\* to the handler through the destructor of "threads": with a thread in it
\* that was not joined, ~thread calls std::terminate and the process ends
\* there, whatever its workers were doing; with no thread in it the handler
\* is entered
ThreadCreateFails ==
    /\ ctl.pc = "create"
    /\ IF ctl.t = 0
       THEN /\ ctl' = [ctl EXCEPT !.threw = TRUE, !.pc = "catch"]
            /\ wk' = wk
       ELSE /\ ctl' = [ctl EXCEPT !.threw = TRUE, !.pc = "terminated"]
            /\ wk' = [w \in Threads |->
                        IF wk[w].pc = "idle" THEN wk[w] ELSE [wk[w] EXCEPT !.pc = "killed"]]
    /\ UNCHANGED <<aside, prev, cfg, stopFile, file, skipFilter, skipListFilePath, filterMutex,
                   foundFlag, foundPassword_internal, stop_requested, stdout, exitCode,
                   oracleAccepted, tested, saves, pwdWrites>>

\* catch (const std::exception &e): the save when the filter is there and
\* valid, under the filter mutex, and return ""
Catch ==
    /\ ctl.pc = "catch"
    /\ filterMutex = Free
    /\ \E written \in SerializeOutcomes(skipFilter) :
         LET save == FilterOn /\ isValid(skipFilter)
         IN  /\ file' = IF save THEN written ELSE file
             /\ saves' = IF save THEN saves \cup {SaveEvent(Controller, "catch")}
                         ELSE saves
    /\ ctl' = [ctl EXCEPT !.ret = <<>>, !.pc = "report"]
    /\ UNCHANGED <<aside, prev, cfg, stopFile, skipFilter, skipListFilePath, filterMutex, wk,
                   foundFlag, foundPassword_internal, stop_requested, stdout, exitCode,
                   oracleAccepted, tested, pwdWrites>>

\* the number of oracle calls of a run whose verifier cannot be started
MaxSpawnFailures == 1

\* variant: a candidate whose verifier could not be started is not inserted
WorkerTrySpawnFailsNoInsert(w) ==
    /\ wk[w].pc = "try"
    /\ cfg.max_length <= MaxLen
    /\ Cardinality(ctl.spawn_failed) < MaxSpawnFailures
    /\ tested' = tested (+) SetToBag({wk[w].pwd})
    /\ ctl' = [ctl EXCEPT !.spawn_failed = @ \cup {wk[w].pwd}]
    /\ wk' = [wk EXCEPT ![w] = Advance(w)]
    /\ UNCHANGED <<aside, prev, cfg, stopFile, file, skipFilter, skipListFilePath, filterMutex,
                   foundFlag, foundPassword_internal, stop_requested, stdout, exitCode,
                   oracleAccepted, saves, pwdWrites>>

\* tryPassword(pwd, archivePath) when CreateProcessW or fork fails: it
\* returns false whatever the password is; ctl.spawn_failed notes the
\* password for the properties; the failure is taken in the runs over the
\* short lengths
WorkerTrySpawnFails(w) ==
    /\ wk[w].pc = "try"
    /\ cfg.max_length <= MaxLen
    /\ Cardinality(ctl.spawn_failed) < MaxSpawnFailures
    /\ tested' = tested (+) SetToBag({wk[w].pwd})
    /\ ctl' = [ctl EXCEPT !.spawn_failed = @ \cup {wk[w].pwd}]
    /\ wk' = [wk EXCEPT ![w] =
                LET counted == [wk[w] EXCEPT
                                  !.calls_after_stop = IF stop_requested THEN @ + 1 ELSE @,
                                  !.calls_after_found = IF foundFlag THEN @ + 1 ELSE @]
                IN  IF FilterOn THEN [counted EXCEPT !.pc = "ins"]
                    ELSE [counted EXCEPT !.pc = "guard", !.idx = U64Add(@, U64(1)),
                                         !.pwd = <<>>]]
    /\ UNCHANGED <<aside, prev, cfg, stopFile, file, skipFilter, skipListFilePath, filterMutex,
                   foundFlag, foundPassword_internal, stop_requested, stdout, exitCode,
                   oracleAccepted, saves, pwdWrites>>

FaultNext ==
    \/ Next
    \/ IndexVectorFails
    \/ ThreadCreateFails
    \/ Catch
    \/ \E w \in Threads : WorkerTrySpawnFails(w)

FaultSpec == Init /\ [][FaultNext]_vars

\* C33 as stated: an exception thrown by the strategy code reaches the
\* handler of the controller, which saves the filter under the filter mutex
\* when there is a valid one and returns the empty string, so that the run
\* ends with exit status 1 and without a FOUND line
C33_ExceptionCaughtAndSaved ==
    ctl.threw =>
      /\ ctl.pc \in {"catch", "report", "exited"}
      /\ ctl.pc = "catch" => filterMutex = Free
      /\ ctl.pc \in {"report", "exited"} =>
           /\ ctl.ret = <<>>
           /\ FilterOn /\ isValid(skipFilter) =>
                \E e \in saves : e.by = Controller /\ e.at = "catch" /\ e.running = {}
      /\ Exited => exitCode = 1 /\ stdout = <<>>


(***************************************************************************)
(* C34: the stop flag file ends a worker within 1000 candidates            *)
(***************************************************************************)
\* C34: with the filter active a worker hands at most 1000 candidates to
\* the oracle while the stop flag file exists; a worker whose index is a
\* multiple of 1000 looks for the file before it does anything with that
\* index, and a worker that finds the file leaves its loop without testing
\* the index, with stop_requested set when it has left
C34_StopWithinInterval ==
    [][\A w \in Threads :
         /\ FilterOn => wk'[w].calls_after_flag <= 1000
         /\ wk[w].pc = "guard" /\ wk'[w].pc \in {"contains", "try"} =>
              U64Mod(wk[w].idx, 1000) # 0
         /\ wk[w].pc = "poll" /\ StopFlagSeen /\ wk'[w] # wk[w] =>
              /\ wk'[w].pc \in {"ser", "done"}
              /\ wk'[w].pc = "done" => stop_requested'
              /\ tested' = tested
         /\ wk[w].pc = "ser" /\ wk'[w] # wk[w] =>
              /\ wk'[w].pc = "done"
              /\ stop_requested'
              /\ tested' = tested]_vars

\* the file appeared when the worker had just looked for it at index 0: the
\* worker has gone through the indices 0 to 999, of which the filter held
\* back two as false positives, and has left at index 1000
C34_ThousandAfterFlag ==
    /\ cfg \in LongConfigs
    /\ FilterOn
    /\ stop_requested
    /\ wk[0].pc = "done"
    /\ wk[0].idx = U64(1000)
    /\ wk[0].calls_after_flag = 998
    /\ BagCardinality(tested) = 998


(***************************************************************************)
(* C35: every run ends                                                     *)
(***************************************************************************)
\* C35: when every thread that can take a step takes one (every oracle call
\* returns), the run comes to its end: the length walk is left, main() has
\* returned, and no worker thread is running then
C35_RunTerminates == <>(Exited /\ \A w \in Threads : ~Running(w))

\* a descending run over two lengths with two workers has gone through
\* both lengths without finding anything and has ended
C35_ExhaustedDescending ==
    /\ Exited
    /\ cfg.mode = "DESCENDING"
    /\ cfg.numThreads = 2
    /\ ctl.dispatched = <<2, 1>>
    /\ ~foundFlag /\ ~stop_requested
    /\ BagCardinality(tested) = 6
    /\ \A w \in Threads : ~Running(w)


(***************************************************************************)
(* C36: reads of the filter while it is written                            *)
(***************************************************************************)
\* C36 as stated: a worker calls contains() only in a state in which no
\* other thread is inside insert(), and enters insert() only when no other
\* thread is inside it
C36_NoReadDuringInsert ==
    [][\A w \in Threads :
         /\ WorkerContains(w) => \A v \in Threads \ {w} : wk[v].pc # "ins_in"
         /\ WorkerInsertLock(w) => \A v \in Threads \ {w} : wk[v].pc # "ins_in"]_vars


(***************************************************************************)
(* C37: found and stopped at once                                          *)
(***************************************************************************)
\* C37: a run at whose end foundFlag and stop_requested are both set has
\* made the final save (serialize called by the controller with no worker
\* running), returns the password the winning worker stored, writes the
\* FOUND: line with it and exits with status 0
C37_FoundWinsOverStop ==
    foundFlag /\ stop_requested =>
      /\ ctl.pc \in {"report", "exited"} =>
           /\ \E e \in saves : e.by = Controller /\ e.at = "final" /\ e.running = {}
           /\ ctl.ret = foundPassword_internal
           /\ ctl.ret \in oracleAccepted
      /\ Exited =>
           /\ stdout = <<foundPassword_internal>>
           /\ exitCode = 0

\* a stop was requested while an oracle call was under way, and the call
\* accepted
C37_AcceptedWhileStopping ==
    /\ Exited
    /\ foundFlag
    /\ stop_requested
    /\ exitCode = 0
    /\ stdout # <<>>


(***************************************************************************)
(* C38: a pattern with two "*"                                             *)
(***************************************************************************)
TwoStars == calculate_pattern_info(parse_pattern(cfg.pattern)).num_stars >= 2

\* C38: with a pattern of two or more "*" the run is an ascending or
\* descending walk (the random mode is changed to ascending at entry) in
\* which no length is handed to workers: no thread is created, nothing is
\* submitted to the oracle, nothing is found and the exit status is 1; a
\* run that is not asked to stop passes over every length of its range and
\* ends without a save
C38_TwoStarsNothingTried ==
    TwoStars =>
      /\ tested = EmptyBag
      /\ \A w \in Threads : wk[w].pc = "idle"
      /\ ctl.dispatched = <<>>
      /\ ~foundFlag
      /\ ctl.pc \in {"enter", "loop", "final", "report", "exited"}
      /\ ctl.pc # "enter" =>
           /\ ctl.kind = "pattern_index"
           /\ ctl.mode = IF cfg.mode = "RANDOM_LCG" THEN "ASCENDING" ELSE cfg.mode
      /\ ctl.pc \in {"final", "report", "exited"} /\ ~stop_requested =>
           /\ ctl.length = IF ctl.mode = "ASCENDING" THEN ctl.max_length + 1
                           ELSE ctl.min_length - 1
           /\ saves = {}
      /\ Exited => exitCode = 1 /\ stdout = <<>>

\* a run asked for the random mode has walked upwards past both lengths
C38_RandomWalkedUpwards ==
    /\ TwoStars
    /\ cfg.mode = "RANDOM_LCG"
    /\ Exited
    /\ ~stop_requested
    /\ ctl.mode = "ASCENDING"
    /\ ctl.length = MaxLen + 1
    /\ exitCode = 1


(***************************************************************************)
(* C39: the verifier cannot be started                                     *)
(***************************************************************************)
\* the worker is between the oracle call on p and the end of insert(p)
AboutToInsert(p) == \E w \in Threads : wk[w].pc \in {"ins", "ins_in"} /\ wk[w].pwd = p

\* C39: an oracle call whose verifier cannot be started is a reject: the
\* step sets neither foundFlag nor stop_requested and stores no password,
\* the worker goes on to insert the candidate when there is a filter and to
\* its next index when there is none; once inserted the candidate stays in
\* the filter, so that contains() holds it back, and is in the image the
\* final save of the controller writes
C39_SpawnFailureIsReject ==
    [][/\ \A w \in Threads :
            WorkerTrySpawnFails(w) =>
              /\ foundFlag' = foundFlag
              /\ stop_requested' = stop_requested
              /\ foundPassword_internal' = foundPassword_internal
              /\ oracleAccepted' = oracleAccepted
              /\ FilterOn => wk'[w].pc = "ins" /\ wk'[w].pwd = wk[w].pwd
              /\ ~FilterOn => wk'[w].pc = "guard"
                              /\ wk'[w].idx = U64Add(wk[w].idx, U64(1))
       /\ \A p \in ctl'.spawn_failed :
            /\ FilterOn /\ ctl'.pc # "terminated" /\ ~AboutToInsert(p)' =>
                 contains(skipFilter', p)
            /\ ctl.pc = "final" /\ file' # file /\ file'.state = "saved" =>
                 contains(file'.image, p)
            /\ p \notin oracleAccepted'
            /\ Exited' => p \notin Range(stdout')]_vars

\* the verifier could not be started for the password the archive opens
\* with: the password is in the filter and the run has ended without it
C39_PasswordLostToFilter ==
    /\ Exited
    /\ FilterOn
    /\ \E p \in ctl.spawn_failed : p \in cfg.accepts /\ contains(skipFilter, p)
    /\ ~foundFlag
    /\ exitCode = 1


(***************************************************************************)
(* C40: foundMutex and *filterMutex                                        *)
(***************************************************************************)
\* the threads that hold one of the two locks
LockHolders == filterMutex \cup ctl.foundMutex

\* w stands before a lock_guard: it waits until the mutex is free
WaitsForLock(w) == wk[w].pc \in {"ins", "ser", "write"}

\* the controller stands before one of its lock_guards: the checkpoint after
\* the join, the final save and the return, the save of the catch handler
ControllerAtLock ==
    \/ ctl.pc = "join" /\ AllJoined
    \/ ctl.pc \in {"final", "catch"}

\* C40: no thread holds foundMutex and *filterMutex at the same time; a
\* thread that is about to acquire a mutex holds none, so it does not
\* acquire one it holds; every holder is inside its critical section, whose
\* step needs no lock, so a thread that waits for a lock is never waited for;
\* and where the controller locks, both mutexes are free
C40_NoDeadlockOnLocks ==
    /\ filterMutex \cap ctl.foundMutex = {}
    /\ Cardinality(filterMutex) <= 1
    /\ Cardinality(ctl.foundMutex) <= 1
    /\ LockHolders \subseteq Threads
    /\ \A w \in Threads :
         /\ WaitsForLock(w) => w \notin LockHolders
         \* while the process lives, a holder is inside its critical section
         /\ ctl.pc # "terminated" =>
               /\ w \in filterMutex <=> wk[w].pc = "ins_in"
               /\ w \in ctl.foundMutex <=> wk[w].pc = "write_in"
    /\ ControllerAtLock => LockHolders = {}

\* one worker holds foundMutex while another one holds *filterMutex
C40_BothLocksHeld ==
    \E v, w \in Threads :
        /\ v # w
        /\ ctl.foundMutex = {v}
        /\ filterMutex = {w}
        /\ wk[v].pc = "write_in"
        /\ wk[w].pc = "ins_in"

=============================================================================
